---- MODULE Spec2Model ----
(***************************************************************************)
(* Trigger subsystem of the plugin SDK examples: webhook dispatchers and   *)
(* subscription lifecycle managers of the Gmail, Google Calendar, Google   *)
(* Drive, Dropbox, Slack, Telegram and GitHub providers.                   *)
(*                                                                         *)
(* One behaviour exercises one provider (variable `provider`, fixed by the *)
(* initial state).  A dispatcher that performs store or provider I/O is a  *)
(* step machine: one action per I/O step of _dispatch_event, so that two   *)
(* deliveries can interleave where the code can.  `maxInFlight` is 1 when  *)
(* deliveries are processed one after another and 2 when two of them run   *)
(* concurrently.                                                           *)
(***************************************************************************)
EXTENDS Integers, Sequences, FiniteSets, TLC

VARIABLES
    provider,     \* the provider example this behaviour exercises
    maxInFlight,  \* number of deliveries the host processes at the same time
    sub,          \* the Subscription record held by the host (live, endpoint, parameters, properties)
    storage,      \* session.storage: a partial function key -> value
    remote,       \* the provider's side: change log, registered channels, hooks
    procs,        \* the in-flight dispatches: program counter and locals of each
    ghost,        \* history: result of the last completed operation, what was emitted
    response_cache_map  \* lark.py's module-level dict: thread id -> event names

vars == <<provider, maxInFlight, sub, storage, remote, procs, ghost, response_cache_map>>

(***************************************************************************)
(* Bounds of the model.                                                    *)
(***************************************************************************)
MaxHist == 3          \* provider-side changes per behaviour

Procs == {1, 2}        \* two deliveries at most are in flight

(***************************************************************************)
(* Subscription store (spec section 6): get / set / exists by key, no      *)
(* transaction.  A key is a pair <<prefix, id>>.                           *)
(***************************************************************************)
storage_exist(key) == key \in DOMAIN storage

storage_get(key) == storage[key]

storage_set(st, key, value) == (key :> value) @@ st

InFlight == Cardinality({p \in Procs : procs[p].pc # "idle"})

\* A delivery starts on the first free worker, while fewer than maxInFlight run.
CanStart(p) ==
    /\ procs[p].pc = "idle"
    /\ InFlight < maxInFlight
    /\ \A q \in Procs : q < p => procs[q].pc # "idle"

\* The inputs of a step: every value of `all` when deliveries are processed one
\* after another; concurrent deliveries are authentic and their provider calls
\* succeed, so that what goes wrong there is due to the interleaving alone.
Inputs(all, good) == IF maxInFlight = 1 THEN all ELSE {good}

\* i < r <= j
Between(i, j) == {r \in 1..MaxHist + 1 : i < r /\ r <= j}

Bump(emit, delta) == [r \in DOMAIN emit |-> IF r \in delta /\ emit[r] < 2 THEN emit[r] + 1 ELSE emit[r]]

NoLast == [op |-> "none"]

NoPrev == [valid |-> FALSE]

Ghost0 == [last |-> NoLast, prev |-> NoPrev, emit |-> [r \in 1..MaxHist + 1 |-> 0],
           initCursor |-> 0, inited |-> FALSE, fetchFailed |-> FALSE]

Cursor(key) == IF storage_exist(key) THEN storage_get(key) ELSE 0

\* The providers whose deliveries carry no position of their own, so that a
\* delivery can be processed twice against an unchanged account.
Replayable == {"gcal", "dropbox"}

\* The record of a completed dispatch.  `replay` says that the delivery is the
\* one processed (and answered 200) just before, with the provider's side
\* unchanged since.
Done(kind, status, events, pr, key, st) ==
    [op |-> "dispatch", kind |-> kind, status |-> status, events |-> events,
     touched |-> pr.touched, authFail |-> pr.authFail, expired |-> FALSE, fresh |-> 0,
     handshake |-> IF "state" \in DOMAIN pr.req THEN pr.req.state = "sync" ELSE FALSE,
     replay |-> /\ provider \in Replayable
                /\ ghost.prev.valid
                /\ ghost.prev.req = pr.req
                /\ ghost.prev.remote = pr.remote0
                /\ ghost.prev.cursor = pr.cursor0
                /\ pr.remote0 = remote,
     cursor |-> IF key \in DOMAIN st THEN st[key] ELSE 0,
     cursor0 |-> pr.cursor0]

\* A successful dispatch during which the account did not change.
Prev(kind, status, pr, key, st) ==
    IF provider \in Replayable /\ kind = "EventDispatch" /\ status = 200 /\ pr.remote0 = remote
    THEN [valid |-> TRUE, req |-> pr.req, remote |-> remote,
          cursor |-> IF key \in DOMAIN st THEN st[key] ELSE 0]
    ELSE NoPrev

\* Results are recorded for deliveries processed one after another.
Finish(kind, status, events, pr, key, st) ==
    IF maxInFlight = 1
    THEN [ghost EXCEPT !.last = Done(kind, status, events, pr, key, st),
                       !.prev = Prev(kind, status, pr, key, st)]
    ELSE ghost

\* The endpoint the host hands to create_subscription.
Endpoint == "https://host/endpoint"

\* The threads of the host that run dispatches.
LarkThreads == {1, 2}

\* response_cache_map = {} at import, line 75: no thread has an entry.
NoCache == [t \in LarkThreads |-> [present |-> FALSE, names |-> <<>>]]

\* Subscription(...) built without a parameters argument: the field takes the
\* default of the entity, which carries nothing of the caller's parameters.
Subscription_default_parameters == [none |-> TRUE]

NoSub == [live |-> FALSE, endpoint |-> "", parameters |-> [none |-> TRUE], properties |-> [none |-> TRUE]]

(***************************************************************************)
(* Gmail                                                                   *)
(***************************************************************************)
\* The mailbox history is a sequence of records; record i has historyId i.
\* Gmail publishes one Pub/Sub notification per change, carrying the
\* historyId the mailbox had reached; Pub/Sub delivers at least once, in any
\* order.
HistoryKinds == <<"messagesAdded", "labelsRemoved", "messagesDeleted", "labelsAdded">>

\* The kind of the i-th change of the mailbox (a fixed script of changes).
KindOf(i) == HistoryKinds[((i - 1) % 4) + 1]

OidcTokens == {"none", "good", "bad"}

PushBodies == {"ok", "malformed"}

GmailIdle == [pc |-> "idle", req |-> [token |-> "none", body |-> "ok", n |-> 0], start |-> 0,
              delta |-> {}, touched |-> 0, authFail |-> FALSE, cursor0 |-> 0]

Gmail_checkpoint_key(props) == <<"gmail:history_checkpoint", props.subscription_key>>

\* TRUE when the request passes; FALSE when TriggerValidationError is raised.
Gmail_maybe_verify_pubsub_oidc(token, props) ==
    IF ~props.require_oidc THEN TRUE
    ELSE IF token = "none" THEN FALSE
    ELSE token = "good"

\* TRUE when the envelope yields a notification with historyId and emailAddress.
Gmail_parse_pubsub_push(body) == body = "ok"

\* users.history.list from start_history_id: every record after it, up to the
\* mailbox's current state; any non-200 page gives five empty lists.
Gmail_fetch_history_delta(start_history_id, ok) ==
    IF ok THEN Between(start_history_id, Len(remote.history)) ELSE {}

Gmail_events(delta) ==
    (IF \E r \in delta : remote.history[r] = "messagesAdded" THEN <<"gmail_message_added">> ELSE <<>>)
    \o (IF \E r \in delta : remote.history[r] = "messagesDeleted" THEN <<"gmail_message_deleted">> ELSE <<>>)
    \o (IF \E r \in delta : remote.history[r] = "labelsAdded" THEN <<"gmail_label_added">> ELSE <<>>)
    \o (IF \E r \in delta : remote.history[r] = "labelsRemoved" THEN <<"gmail_label_removed">> ELSE <<>>)

\* A change in the mailbox: a new history record and its notification.
Gmail_MailboxChange ==
    /\ provider = "gmail"
    /\ Len(remote.history) < MaxHist
    /\ remote' = [remote EXCEPT !.history = Append(@, KindOf(Len(@) + 1)), !.seq = @ + 1]
    /\ UNCHANGED <<response_cache_map, provider, maxInFlight, sub, storage, procs, ghost>>

\* _dispatch_event, lines 41-53: verify, parse, read the access token.
Gmail_dispatch_begin(p) ==
    /\ provider = "gmail"
    /\ sub.live
    /\ procs[p].pc = "idle"
    /\ CanStart(p)
    /\ \E token \in Inputs(OidcTokens, "good"), body \in Inputs(PushBodies, "ok"),
          n \in 1..Len(remote.history), at \in Inputs(BOOLEAN, TRUE) :
        LET fail == sub.properties.require_oidc /\ token # "good"
            key == Gmail_checkpoint_key(sub.properties)
            pr == [GmailIdle EXCEPT !.req = [token |-> token, body |-> body, n |-> n],
                                    !.authFail = fail, !.cursor0 = Cursor(key)]
        IN  IF ~Gmail_maybe_verify_pubsub_oidc(token, sub.properties)
            THEN /\ ghost' = Finish("TriggerValidationError", 0, <<>>, pr, key, storage)
                 /\ UNCHANGED procs
            ELSE IF ~Gmail_parse_pubsub_push(body)
            THEN /\ ghost' = Finish("TriggerDispatchError", 0, <<>>, pr, key, storage)
                 /\ UNCHANGED procs
            ELSE IF ~at
            THEN /\ ghost' = Finish("EventDispatch", 400, <<>>, pr, key, storage)
                 /\ UNCHANGED procs
            ELSE /\ procs' = [procs EXCEPT ![p] = [pr EXCEPT !.pc = "exist"]]
                 /\ UNCHANGED ghost
    /\ UNCHANGED <<response_cache_map, provider, maxInFlight, sub, storage, remote>>

\* line 62: session.storage.exist(checkpoint_key)
Gmail_dispatch_exist(p) ==
    /\ provider = "gmail"
    /\ procs[p].pc = "exist"
    /\ procs' = [procs EXCEPT ![p].pc =
                    IF storage_exist(Gmail_checkpoint_key(sub.properties)) THEN "get" ELSE "init",
                 ![p].touched = @ + 1]
    /\ UNCHANGED <<response_cache_map, provider, maxInFlight, sub, storage, remote, ghost>>

\* lines 63-65: first notification, initialise the checkpoint and return 200.
Gmail_dispatch_init(p) ==
    /\ provider = "gmail"
    /\ procs[p].pc = "init"
    /\ storage' = storage_set(storage, Gmail_checkpoint_key(sub.properties), procs[p].req.n)
    /\ ghost' = [Finish("EventDispatch", 200, <<>>, [procs[p] EXCEPT !.touched = @ + 1],
                        Gmail_checkpoint_key(sub.properties), storage') EXCEPT
                    !.initCursor = IF ghost.inited THEN @ ELSE procs[p].req.n,
                    !.inited = TRUE]
    /\ procs' = [procs EXCEPT ![p] = GmailIdle]
    /\ UNCHANGED <<response_cache_map, provider, maxInFlight, sub, remote>>

\* line 67: session.storage.get(checkpoint_key)
Gmail_dispatch_get(p) ==
    /\ provider = "gmail"
    /\ procs[p].pc = "get"
    /\ procs' = [procs EXCEPT ![p].pc = "fetch",
                              ![p].start = storage_get(Gmail_checkpoint_key(sub.properties)),
                              ![p].touched = @ + 1]
    /\ UNCHANGED <<response_cache_map, provider, maxInFlight, sub, storage, remote, ghost>>

\* lines 69-74: the history.list round trip.
Gmail_dispatch_fetch(p) ==
    /\ provider = "gmail"
    /\ procs[p].pc = "fetch"
    /\ \E ok \in Inputs(BOOLEAN, TRUE) :
        /\ procs' = [procs EXCEPT ![p].pc = "advance",
                                  ![p].delta = Gmail_fetch_history_delta(procs[p].start, ok)]
        /\ ghost' = [ghost EXCEPT !.fetchFailed = @ \/ ~ok]
    /\ UNCHANGED <<response_cache_map, provider, maxInFlight, sub, storage, remote>>

\* lines 76-98: always advance the checkpoint to the notification's historyId,
\* select the events and return.
Gmail_dispatch_advance(p) ==
    /\ provider = "gmail"
    /\ procs[p].pc = "advance"
    /\ storage' = storage_set(storage, Gmail_checkpoint_key(sub.properties), procs[p].req.n)
    /\ ghost' = [Finish("EventDispatch", 200, Gmail_events(procs[p].delta),
                        [procs[p] EXCEPT !.touched = @ + 1],
                        Gmail_checkpoint_key(sub.properties), storage') EXCEPT
                    !.emit = Bump(@, procs[p].delta)]
    /\ procs' = [procs EXCEPT ![p] = GmailIdle]
    /\ UNCHANGED <<response_cache_map, provider, maxInFlight, sub, remote>>

(***************************************************************************)
(* Google Calendar                                                         *)
(***************************************************************************)
\* The calendar's change log: change i moves the log to position i, and the
\* sync token issued at position t is t.  Tokens below remote.minValid have
\* been invalidated (events.list answers 410 for them).  A channel is a
\* number (uuid4 never repeats); the token of channel c is c as well, and 0
\* stands for an absent or empty header or property.
MaxChannels == 3      \* channels registered per behaviour

CalKinds == <<"created", "updated", "cancelled">>

CalKindOf(i) == CalKinds[((i - 1) % 3) + 1]

ResourceStates == {"sync", "exists"}

CalIdle == [pc |-> "idle", req |-> [cid |-> 0, tok |-> 0, state |-> "sync"], sync_token |-> 0,
            items |-> {}, next |-> 0, touched |-> 0, authFail |-> FALSE, cursor0 |-> 0,
            remote0 |-> 0]

GCal_sync_storage_key(props) == <<"gcal:sync_token", props.subscription_key>>

\* lines 164-171: TRUE when the headers pass, FALSE for TriggerValidationError.
GCal_verify_channel(req, props) ==
    IF props.channel_id # 0 /\ req.cid # props.channel_id THEN FALSE
    ELSE IF props.channel_token # 0 /\ req.tok # props.channel_token THEN FALSE
    ELSE TRUE

\* A bootstrap that hands back a token the provider has already invalidated.
GCal_bootstrap_stale_token == remote.minValid - 1

\* _retrieve_sync_token: pages to the end and returns nextSyncToken.
GCal_bootstrap_sync_token == remote.seq

\* _fetch_events_delta: "gone" (410), "error" (non-200 or network), or the
\* items after sync_token and the next sync token.
GCal_fetch_events_delta(sync_token, ok) ==
    IF sync_token < remote.minValid THEN [status |-> "gone", items |-> {}, next |-> sync_token]
    ELSE IF ~ok THEN [status |-> "error", items |-> {}, next |-> sync_token]
    ELSE [status |-> "ok", items |-> Between(sync_token, remote.seq), next |-> remote.seq]

\* lines 228-262: partition the items and select the events.
GCal_events(items, include_cancelled) ==
    (IF \E r \in items : CalKindOf(r) = "created" THEN <<"google_calendar_event_created">> ELSE <<>>)
    \o (IF \E r \in items : CalKindOf(r) = "updated" THEN <<"google_calendar_event_updated">> ELSE <<>>)
    \o (IF include_cancelled /\ \E r \in items : CalKindOf(r) = "cancelled"
        THEN <<"google_calendar_event_deleted">> ELSE <<>>)

\* A change of the calendar.
GCal_CalendarChange ==
    /\ provider = "gcal"
    /\ remote.seq < MaxHist
    /\ remote' = [remote EXCEPT !.seq = @ + 1]
    /\ UNCHANGED <<response_cache_map, provider, maxInFlight, sub, storage, procs, ghost>>

\* The provider invalidates every sync token older than the current one.
GCal_TokensExpire ==
    /\ provider = "gcal"
    /\ maxInFlight = 1
    /\ remote.minValid < remote.seq
    /\ remote' = [remote EXCEPT !.minValid = remote.seq]
    /\ UNCHANGED <<response_cache_map, provider, maxInFlight, sub, storage, procs, ghost>>

\* _dispatch_event, lines 160-188: verify the channel headers, read the access token.
GCal_dispatch_begin(p) ==
    /\ provider = "gcal"
    /\ sub.live
    /\ CanStart(p)
    /\ \E cid \in Inputs(0..remote.nextChan, sub.properties.channel_id),
          tok \in Inputs(0..remote.nextChan, sub.properties.channel_token),
          state \in Inputs(ResourceStates, "exists"),
          at \in Inputs(BOOLEAN, TRUE) :
        LET req == [cid |-> cid, tok |-> tok, state |-> state]
            key == GCal_sync_storage_key(sub.properties)
            fail == \/ sub.properties.channel_id # 0 /\ cid # sub.properties.channel_id
                    \/ sub.properties.channel_token # 0 /\ tok # sub.properties.channel_token
            pr == [CalIdle EXCEPT !.req = req, !.authFail = fail, !.cursor0 = Cursor(key),
                                  !.remote0 = remote]
        IN  IF ~GCal_verify_channel(req, sub.properties)
            THEN /\ ghost' = Finish("TriggerValidationError", 0, <<>>, pr, key, storage)
                 /\ UNCHANGED procs
            ELSE IF ~at
            THEN /\ ghost' = Finish("EventDispatch", 400, <<>>, pr, key, storage)
                 /\ UNCHANGED procs
            ELSE /\ procs' = [procs EXCEPT ![p] = [pr EXCEPT !.pc = "exist"]]
                 /\ UNCHANGED ghost
    /\ UNCHANGED <<response_cache_map, provider, maxInFlight, sub, storage, remote>>

\* line 193: session.storage.exist(sync_storage_key)
GCal_dispatch_exist(p) ==
    /\ provider = "gcal"
    /\ procs[p].pc = "exist"
    /\ procs' = [procs EXCEPT ![p].pc =
                    IF storage_exist(GCal_sync_storage_key(sub.properties)) THEN "get" ELSE "init",
                 ![p].touched = @ + 1]
    /\ UNCHANGED <<response_cache_map, provider, maxInFlight, sub, storage, remote, ghost>>

\* line 194: session.storage.get(sync_storage_key)
GCal_dispatch_get(p) ==
    /\ provider = "gcal"
    /\ procs[p].pc = "get"
    /\ procs' = [procs EXCEPT ![p].pc = "fetch",
                              ![p].sync_token = storage_get(GCal_sync_storage_key(sub.properties)),
                              ![p].touched = @ + 1]
    /\ UNCHANGED <<response_cache_map, provider, maxInFlight, sub, storage, remote, ghost>>

\* lines 195-207: no stored token: persist properties.initial_sync_token and go
\* on, or (no initial token in the properties) bootstrap one, persist it and
\* return no events; a bootstrap that fails raises (lines 338-339).
GCal_dispatch_init(p) ==
    /\ provider = "gcal"
    /\ procs[p].pc = "init"
    /\ LET key == GCal_sync_storage_key(sub.properties)
           pr == [procs[p] EXCEPT !.touched = @ + 1]
       IN  IF sub.properties.has_initial_sync_token
           THEN /\ storage' = storage_set(storage, key, sub.properties.initial_sync_token)
                /\ procs' = [procs EXCEPT ![p] = [pr EXCEPT !.pc = "fetch",
                                    !.sync_token = sub.properties.initial_sync_token]]
                /\ ghost' = [ghost EXCEPT !.initCursor = sub.properties.initial_sync_token,
                                          !.inited = TRUE]
           ELSE \E boot \in Inputs(BOOLEAN, TRUE) :
                IF boot
                THEN /\ storage' = storage_set(storage, key, GCal_bootstrap_sync_token)
                     /\ procs' = [procs EXCEPT ![p] = CalIdle]
                     /\ ghost' = [Finish("EventDispatch", 200, <<>>, pr, key, storage') EXCEPT
                                     !.initCursor = GCal_bootstrap_sync_token, !.inited = TRUE]
                ELSE /\ UNCHANGED storage
                     /\ procs' = [procs EXCEPT ![p] = CalIdle]
                     /\ ghost' = [Finish("TriggerDispatchError", 0, <<>>, procs[p], key, storage) EXCEPT
                                     !.fetchFailed = TRUE]
    /\ UNCHANGED <<response_cache_map, provider, maxInFlight, sub, remote>>

\* lines 209-223: a "sync" notification returns at once; otherwise the
\* events.list round trip.
GCal_dispatch_fetch(p) ==
    /\ provider = "gcal"
    /\ procs[p].pc = "fetch"
    /\ LET key == GCal_sync_storage_key(sub.properties) IN
       IF procs[p].req.state = "sync"
       THEN /\ ghost' = Finish("EventDispatch", 200, <<>>, procs[p], key, storage)
            /\ procs' = [procs EXCEPT ![p] = CalIdle]
       ELSE \E ok \in Inputs(BOOLEAN, TRUE) :
            LET d == GCal_fetch_events_delta(procs[p].sync_token, ok) IN
            IF d.status = "error"
            THEN /\ ghost' = Finish("TriggerDispatchError", 0, <<>>, procs[p], key, storage)
                 /\ procs' = [procs EXCEPT ![p] = CalIdle]
            ELSE /\ procs' = [procs EXCEPT ![p].pc = IF d.status = "gone" THEN "expired" ELSE "advance",
                                           ![p].items = d.items, ![p].next = d.next]
                 /\ UNCHANGED ghost
    /\ UNCHANGED <<response_cache_map, provider, maxInFlight, sub, storage, remote>>

\* lines 219-223: SyncTokenExpiredError: bootstrap a fresh token, persist it,
\* return no events.  The bootstrap request itself can fail.
GCal_dispatch_expired(p) ==
    /\ provider = "gcal"
    /\ procs[p].pc = "expired"
    /\ \E ok \in BOOLEAN :
        LET key == GCal_sync_storage_key(sub.properties)
            pr == [procs[p] EXCEPT !.touched = @ + 1]
        IN  IF ok
            THEN /\ storage' = storage_set(storage, key, GCal_bootstrap_sync_token)
                 /\ ghost' = [Finish("EventDispatch", 200, <<>>, pr, key, storage') EXCEPT
                                !.last.expired = TRUE,
                                !.last.fresh = remote.seq,
                                !.initCursor = GCal_bootstrap_sync_token]
            ELSE /\ storage' = storage
                 /\ ghost' = [Finish("TriggerDispatchError", 0, <<>>, procs[p], key, storage) EXCEPT
                                !.last.expired = TRUE]
    /\ procs' = [procs EXCEPT ![p] = CalIdle]
    /\ UNCHANGED <<response_cache_map, provider, maxInFlight, sub, remote>>

\* lines 225-279: persist the next sync token, classify, return the events.
GCal_dispatch_advance(p) ==
    /\ provider = "gcal"
    /\ procs[p].pc = "advance"
    /\ LET key == GCal_sync_storage_key(sub.properties)
           pr == [procs[p] EXCEPT !.touched = @ + 1]
       IN  /\ storage' = storage_set(storage, key, procs[p].next)
           /\ ghost' = [Finish("EventDispatch", 200,
                               GCal_events(procs[p].items, sub.parameters.include_cancelled),
                               pr, key, storage') EXCEPT
                           !.emit = Bump(@, procs[p].items)]
    /\ procs' = [procs EXCEPT ![p] = CalIdle]
    /\ UNCHANGED <<response_cache_map, provider, maxInFlight, sub, remote>>

\* The record of a completed lifecycle operation.
Life(op, kind, success, http, old, new) ==
    [op |-> op, kind |-> kind, success |-> success, http |-> http,
     oldChannel |-> old, newChannel |-> new, storeChanged |-> storage' # storage]

\* What the provider answers to channels.stop: 404 for a channel it does not
\* have, otherwise 204 (and the channel is gone) or a failure.
StopStatus(channel, answer) == IF channel \notin remote.channels THEN 404 ELSE answer

\* _stop_channel, lines 648-661: TRUE only for 200 or 204.
GCal_stop_channel(props, http) ==
    IF props.channel_id = 0 \/ props.resource_id = 0 THEN FALSE
    ELSE http \in {200, 204}

\* _create_subscription, lines 474-549.
GCal_create_subscription ==
    /\ provider = "gcal"
    /\ ~sub.live
    /\ InFlight = 0
    /\ UNCHANGED <<response_cache_map, provider, maxInFlight, storage, procs>>
    /\ remote.nextChan < MaxChannels
    /\ \E at \in BOOLEAN, watch \in BOOLEAN, boot \in BOOLEAN, incl \in BOOLEAN :
        LET c == remote.nextChan + 1 IN
        IF ~at \/ ~watch
        THEN /\ UNCHANGED <<sub, remote>>
             /\ ghost' = [ghost EXCEPT !.last = Life("create", "SubscriptionError", FALSE, 0, 0, 0)]
        ELSE /\ remote' = [remote EXCEPT !.channels = @ \cup {c}, !.nextChan = c]
             /\ IF ~boot
                THEN /\ UNCHANGED sub
                     /\ ghost' = [ghost EXCEPT !.last = Life("create", "SubscriptionError", FALSE, 0, 0, c)]
                ELSE /\ sub' = [live |-> TRUE, endpoint |-> Endpoint,
                                parameters |-> [include_cancelled |-> incl],
                                properties |-> [channel_id |-> c, channel_token |-> c, resource_id |-> c,
                                                subscription_key |-> c,
                                                initial_sync_token |-> GCal_bootstrap_sync_token,
                                                has_initial_sync_token |-> TRUE]]
                     /\ ghost' = [ghost EXCEPT !.last = Life("create", "Subscription", TRUE, 0, 0, c)]

\* _refresh_subscription, lines 551-630: stop the old channel (the answer is
\* not looked at), watch with a new channel, bootstrap a sync token.
GCal_refresh_subscription ==
    /\ provider = "gcal"
    /\ sub.live
    /\ InFlight = 0
    /\ UNCHANGED <<response_cache_map, provider, maxInFlight, storage, procs>>
    /\ remote.nextChan < MaxChannels
    /\ \E at \in BOOLEAN, answer \in {204, 500}, watch \in BOOLEAN, boot \in BOOLEAN :
        LET c == remote.nextChan + 1
            old == sub.properties.channel_id
            http == StopStatus(old, answer)
            stopped == IF http = 204 THEN remote.channels \ {old} ELSE remote.channels
        IN
        IF ~at
        THEN /\ UNCHANGED <<sub, remote>>
             /\ ghost' = [ghost EXCEPT !.last = Life("refresh", "SubscriptionError", FALSE, 0, old, 0)]
        ELSE IF ~watch
        THEN /\ remote' = [remote EXCEPT !.channels = stopped]
             /\ UNCHANGED sub
             /\ ghost' = [ghost EXCEPT !.last = Life("refresh", "SubscriptionError", FALSE, http, old, 0)]
        ELSE /\ remote' = [remote EXCEPT !.channels = stopped \cup {c}, !.nextChan = c]
             /\ IF ~boot
                THEN /\ UNCHANGED sub
                     /\ ghost' = [ghost EXCEPT
                                    !.last = Life("refresh", "SubscriptionError", FALSE, http, old, c)]
                ELSE /\ sub' = [sub EXCEPT !.properties.channel_id = c,
                                           !.properties.channel_token = c,
                                           !.properties.resource_id = c,
                                           !.properties.initial_sync_token = GCal_bootstrap_sync_token]
                     /\ ghost' = [ghost EXCEPT
                                    !.last = Life("refresh", "Subscription", TRUE, http, old, c)]

\* _delete_subscription, lines 632-646.
GCal_delete_subscription ==
    /\ provider = "gcal"
    /\ sub.live
    /\ InFlight = 0
    /\ UNCHANGED <<response_cache_map, provider, maxInFlight, storage, procs>>
    /\ \E at \in BOOLEAN, answer \in {204, 500} :
        LET old == sub.properties.channel_id
            http == StopStatus(old, answer)
        IN
        IF ~at
        THEN /\ UNCHANGED <<sub, remote>>
             /\ ghost' = [ghost EXCEPT !.last = Life("delete", "UnsubscribeResult", FALSE, 0, old, 0)]
        ELSE /\ remote' = [remote EXCEPT !.channels = IF http = 204 THEN @ \ {old} ELSE @]
             /\ IF GCal_stop_channel(sub.properties, http)
                THEN /\ sub' = NoSub
                     /\ ghost' = [ghost EXCEPT
                                    !.last = Life("delete", "UnsubscribeResult", TRUE, http, old, 0)]
                ELSE /\ UNCHANGED sub
                     /\ ghost' = [ghost EXCEPT
                                    !.last = Life("delete", "UnsubscribeResult", FALSE, http, old, 0)]

\* A channel reaches its expiration: the provider drops it.
GCal_ChannelExpires ==
    /\ provider = "gcal"
    /\ \E c \in remote.channels : remote' = [remote EXCEPT !.channels = @ \ {c}]
    /\ UNCHANGED <<response_cache_map, provider, maxInFlight, sub, storage, procs, ghost>>

\* The subscription that _create_subscription returns at position 0 of the
\* change log: channel 1, its token, the initial sync token.
GCalSub(incl) ==
    [live |-> TRUE, endpoint |-> Endpoint,
     parameters |-> [include_cancelled |-> incl],
     properties |-> [channel_id |-> 1, channel_token |-> 1, resource_id |-> 1,
                     subscription_key |-> 1, initial_sync_token |-> 0,
                     has_initial_sync_token |-> TRUE]]

InitGCal ==
    /\ provider = "gcal"
    /\ response_cache_map = NoCache
    /\ maxInFlight = 1
    /\ \E incl \in BOOLEAN : sub = GCalSub(incl)
    /\ storage = <<>>
    /\ remote = [seq |-> 0, minValid |-> 0, channels |-> {1}, nextChan |-> 2]
    /\ procs = [p \in Procs |-> CalIdle]
    /\ ghost = Ghost0

InitGCalLife ==
    /\ provider = "gcal"
    /\ response_cache_map = NoCache
    /\ maxInFlight = 1
    /\ sub = NoSub
    /\ storage = <<>>
    /\ remote = [seq |-> 0, minValid |-> 0, channels |-> {}, nextChan |-> 0]
    /\ procs = [p \in Procs |-> CalIdle]
    /\ ghost = Ghost0

\* Two concurrent deliveries for a subscription created at position 0.
InitGCalConc ==
    /\ provider = "gcal"
    /\ response_cache_map = NoCache
    /\ maxInFlight = 2
    /\ sub = GCalSub(TRUE)
    /\ storage = <<>>
    /\ remote = [seq |-> 0, minValid |-> 0, channels |-> {1}, nextChan |-> 2]
    /\ procs = [p \in Procs |-> CalIdle]
    /\ ghost = Ghost0

(***************************************************************************)
(* Google Drive                                                            *)
(***************************************************************************)
\* The change log of the drive: change i is listed from page token i, and the
\* start page token at position seq is seq + 1.  0 stands for an absent
\* header, property or token.  changes.list returns at most DrivePage changes
\* per page, with nextPageToken, and newStartPageToken on the last page.
DrivePage == 2        \* changes per page of changes.list

DriveMethods == {"POST", "GET", "PUT"}

DriveBodies == {"none", "mapping", "list"}

DriveIdle == [pc |-> "idle", req |-> [method |-> "POST", cid |-> 0, rid |-> 0, tok |-> 0,
                                      state |-> "sync", body |-> "none"],
              page_token |-> 0, resp |-> [changes |-> {}, next |-> 0, newStart |-> 0],
              changes |-> {}, touched |-> 0, authFail |-> FALSE, cursor0 |-> 0, calls |-> 0]

GoogleDrive_STORAGE_KEY == <<"google-drive-trigger:last-page-token", 0>>

\* lines 52-68: TRUE when the headers pass, FALSE for TriggerValidationError.
GoogleDrive_verify_headers(req, props) ==
    IF props.channel_id # 0 /\ req.cid # 0 /\ props.channel_id # req.cid THEN FALSE
    ELSE IF props.resource_id # 0 /\ req.rid # 0 /\ props.resource_id # req.rid THEN FALSE
    ELSE IF props.channel_token # 0 /\ req.tok # 0 /\ props.channel_token # req.tok THEN FALSE
    ELSE TRUE

\* _get_max_page_token, lines 188-197.
GoogleDrive_get_max_page_token(props) ==
    IF storage_exist(GoogleDrive_STORAGE_KEY) THEN storage_get(GoogleDrive_STORAGE_KEY)
    ELSE props.start_page_token

\* changes.list from a page token.
GoogleDrive_changes_list(page_token) ==
    IF page_token + DrivePage <= remote.seq
    THEN [changes |-> {r \in 1..MaxHist + 1 : page_token <= r /\ r < page_token + DrivePage},
          next |-> page_token + DrivePage, newStart |-> 0]
    ELSE [changes |-> {r \in 1..MaxHist + 1 : page_token <= r /\ r <= remote.seq},
          next |-> 0, newStart |-> remote.seq + 1]

GoogleDrive_DriveChange ==
    /\ provider = "gdrive"
    /\ remote.seq < MaxHist
    /\ remote' = [remote EXCEPT !.seq = @ + 1]
    /\ UNCHANGED <<response_cache_map, provider, maxInFlight, sub, storage, procs, ghost>>

\* _dispatch_event, lines 36-88: method, headers, body, sync notification,
\* credentials and parameters.
GoogleDrive_dispatch_begin(p) ==
    /\ provider = "gdrive"
    /\ sub.live
    /\ CanStart(p)
    /\ \E method \in Inputs(DriveMethods, "POST"),
          cid \in Inputs(0..remote.nextChan, sub.properties.channel_id),
          tok \in Inputs(0..remote.nextChan, sub.properties.channel_token),
          state \in Inputs(ResourceStates, "exists"),
          body \in Inputs(DriveBodies, "none"),
          at \in Inputs(BOOLEAN, TRUE) :
        LET req == [method |-> method, cid |-> cid, rid |-> cid, tok |-> tok, state |-> state,
                    body |-> body]
            key == GoogleDrive_STORAGE_KEY
            pr == [DriveIdle EXCEPT !.req = req, !.cursor0 = Cursor(key),
                        !.authFail = \/ sub.properties.channel_id # 0 /\ cid # sub.properties.channel_id
                                     \/ sub.properties.channel_token # 0 /\ tok # sub.properties.channel_token]
        IN  IF method \notin {"POST", "GET"}
            THEN /\ ghost' = Finish("EventDispatch", 200, <<>>, pr, key, storage)
                 /\ UNCHANGED procs
            ELSE IF ~GoogleDrive_verify_headers(req, sub.properties)
            THEN /\ ghost' = Finish("TriggerValidationError", 0, <<>>, pr, key, storage)
                 /\ UNCHANGED procs
            ELSE IF body = "list"
            THEN /\ ghost' = Finish("TriggerDispatchError", 0, <<>>, pr, key, storage)
                 /\ UNCHANGED procs
            ELSE IF state = "sync"
            THEN /\ ghost' = Finish("EventDispatch", 200, <<>>, pr, key, storage)
                 /\ UNCHANGED procs
            ELSE IF ~at \/ ~sub.parameters.nonempty
            THEN /\ ghost' = Finish("TriggerDispatchError", 0, <<>>, pr, key, storage)
                 /\ UNCHANGED procs
            ELSE /\ procs' = [procs EXCEPT ![p] = [pr EXCEPT !.pc = "read"]]
                 /\ UNCHANGED ghost
    /\ UNCHANGED <<response_cache_map, provider, maxInFlight, sub, storage, remote>>

\* _fetch_changes, line 133: the page token is read from the store each turn.
GoogleDrive_fetch_read(p) ==
    /\ provider = "gdrive"
    /\ procs[p].pc = "read"
    /\ procs' = [procs EXCEPT ![p].pc = "list",
                              ![p].page_token = GoogleDrive_get_max_page_token(sub.properties),
                              ![p].touched = @ + 1]
    /\ UNCHANGED <<response_cache_map, provider, maxInFlight, sub, storage, remote, ghost>>

\* lines 147-157: the changes.list round trip; a failure raises ValueError.
\* A 200 answer may also carry neither nextPageToken nor newStartPageToken
\* ("bare", an empty body included: line 152).  calls counts the round trips
\* of the delivery; the count is cut off at MaxHist + 1.  The bare answer and
\* the failing write are drawn in the first delivery of a behaviour.
GoogleDrive_fetch_list(p) ==
    /\ provider = "gdrive"
    /\ procs[p].pc = "list"
    /\ procs[p].calls < MaxHist + 1
    /\ \E answer \in Inputs({"ok", "error"}, "ok")
                     \cup (IF maxInFlight = 1 /\ ghost.last.op # "dispatch" THEN {"bare"} ELSE {}) :
        IF answer # "error"
        THEN /\ procs' = [procs EXCEPT ![p].pc = "check",
                                       ![p].calls = @ + 1,
                                       ![p].resp = IF answer = "ok"
                                                   THEN GoogleDrive_changes_list(procs[p].page_token)
                                                   ELSE [changes |-> {}, next |-> 0, newStart |-> 0]]
             /\ UNCHANGED ghost
        ELSE /\ procs' = [procs EXCEPT ![p] = DriveIdle]
             /\ ghost' = [Finish("ValueError", 0, <<>>, procs[p], GoogleDrive_STORAGE_KEY, storage)
                            EXCEPT !.fetchFailed = TRUE]
    /\ UNCHANGED <<response_cache_map, provider, maxInFlight, sub, storage, remote>>

\* lines 159-162: the store is read again; equal to nextPageToken ends the loop.
GoogleDrive_fetch_check(p) ==
    /\ provider = "gdrive"
    /\ procs[p].pc = "check"
    /\ LET current_page_token == GoogleDrive_get_max_page_token(sub.properties) IN
       procs' = [procs EXCEPT ![p].pc = IF current_page_token = procs[p].resp.next THEN "done" ELSE "store",
                              ![p].touched = @ + 1]
    /\ UNCHANGED <<response_cache_map, provider, maxInFlight, sub, storage, remote, ghost>>

\* lines 164-175: collect the page's changes, persist the next page token or
\* the new start page token.  _set_max_page_token (lines 179-186) suppresses
\* every exception of the store: a write may fail silently.
GoogleDrive_fetch_store(p) ==
    /\ provider = "gdrive"
    /\ procs[p].pc = "store"
    /\ \E wrote \in (IF maxInFlight = 1 /\ ghost.last.op # "dispatch" THEN BOOLEAN ELSE {TRUE}) :
       LET r == procs[p].resp
           token == IF r.newStart # 0 THEN r.newStart ELSE r.next
       IN  /\ storage' = IF token # 0 /\ wrote THEN storage_set(storage, GoogleDrive_STORAGE_KEY, token)
                         ELSE storage
           /\ procs' = [procs EXCEPT ![p].pc = IF r.newStart # 0 THEN "done" ELSE "read",
                                     ![p].changes = @ \cup r.changes,
                                     ![p].touched = @ + 1]
    /\ UNCHANGED <<response_cache_map, provider, maxInFlight, sub, remote, ghost>>

\* line 101: the dispatch returns the event and the collected changes.
GoogleDrive_dispatch_return(p) ==
    /\ provider = "gdrive"
    /\ procs[p].pc = "done"
    /\ ghost' = [Finish("EventDispatch", 200, <<sub.properties.event_name>>, procs[p],
                        GoogleDrive_STORAGE_KEY, storage) EXCEPT
                    !.emit = Bump(@, procs[p].changes)]
    /\ procs' = [procs EXCEPT ![p] = DriveIdle]
    /\ UNCHANGED <<response_cache_map, provider, maxInFlight, sub, storage, remote>>

\* _create_subscription, lines 332-414, also what _refresh_subscription
\* (lines 456-465) calls with the subscription's endpoint and parameters.
GoogleDrive_create(op, old) ==
    \E oauth \in BOOLEAN, at \in BOOLEAN, spaces \in BOOLEAN, start \in BOOLEAN, watch \in BOOLEAN :
        LET c == remote.nextChan + 1
            start_page_token == remote.seq + 1
        IN
        IF ~oauth \/ ~at \/ ~spaces \/ ~start
        THEN /\ UNCHANGED <<sub, remote, storage>>
             /\ ghost' = [ghost EXCEPT !.last = Life(op, "SubscriptionError", FALSE, 0, old, 0)]
        ELSE /\ storage' = storage_set(storage, GoogleDrive_STORAGE_KEY, start_page_token)
             /\ IF ~watch
                THEN /\ UNCHANGED <<sub, remote>>
                     /\ ghost' = [ghost EXCEPT !.last = Life(op, "SubscriptionError", FALSE, 0, old, 0)]
                ELSE /\ remote' = [remote EXCEPT !.channels = @ \cup {c}, !.nextChan = c]
                     /\ sub' = [live |-> TRUE, endpoint |-> Endpoint,
                                parameters |-> [nonempty |-> TRUE],
                                properties |-> [channel_id |-> c, resource_id |-> c, channel_token |-> c,
                                                start_page_token |-> start_page_token,
                                                event_name |-> "drive_change_detected"]]
                     /\ ghost' = [ghost EXCEPT !.last = Life(op, "Subscription", TRUE, 0, old, c)]

GoogleDrive_create_subscription ==
    /\ provider = "gdrive"
    /\ ~sub.live
    /\ InFlight = 0
    /\ remote.nextChan < MaxChannels
    /\ UNCHANGED <<response_cache_map, provider, maxInFlight, procs>>
    /\ GoogleDrive_create("create", 0)

GoogleDrive_refresh_subscription ==
    /\ provider = "gdrive"
    /\ sub.live
    /\ InFlight = 0
    /\ remote.nextChan < MaxChannels
    /\ UNCHANGED <<response_cache_map, provider, maxInFlight, procs>>
    /\ GoogleDrive_create("refresh", sub.properties.channel_id)

\* _delete_subscription, lines 416-454.
GoogleDrive_delete_subscription ==
    /\ provider = "gdrive"
    /\ sub.live
    /\ InFlight = 0
    /\ UNCHANGED <<response_cache_map, provider, maxInFlight, storage, procs>>
    /\ \E oauth \in BOOLEAN, at \in BOOLEAN, answer \in {204, 500} :
        LET old == sub.properties.channel_id
            http == StopStatus(old, answer)
        IN
        IF ~oauth \/ ~at \/ old = 0 \/ sub.properties.resource_id = 0
        THEN /\ UNCHANGED <<sub, remote>>
             /\ ghost' = [ghost EXCEPT !.last = Life("delete", "UnsubscribeError", FALSE, 0, old, 0)]
        ELSE /\ remote' = [remote EXCEPT !.channels = IF http = 204 THEN @ \ {old} ELSE @]
             /\ IF http \in {200, 204}
                THEN /\ sub' = NoSub
                     /\ ghost' = [ghost EXCEPT
                                    !.last = Life("delete", "UnsubscribeResult", TRUE, http, old, 0)]
                ELSE /\ UNCHANGED sub
                     /\ ghost' = [ghost EXCEPT
                                    !.last = Life("delete", "UnsubscribeError", FALSE, http, old, 0)]

GoogleDrive_ChannelExpires ==
    /\ provider = "gdrive"
    /\ \E c \in remote.channels : remote' = [remote EXCEPT !.channels = @ \ {c}]
    /\ UNCHANGED <<response_cache_map, provider, maxInFlight, sub, storage, procs, ghost>>

\* The subscription that _create_subscription returns at position 0 of the
\* change log, and the store as it leaves it.
GDriveSub ==
    [live |-> TRUE, endpoint |-> Endpoint,
     parameters |-> [nonempty |-> TRUE],
     properties |-> [channel_id |-> 1, resource_id |-> 1, channel_token |-> 1,
                     start_page_token |-> 1, event_name |-> "drive_change_detected"]]

InitGDrive ==
    /\ provider = "gdrive"
    /\ response_cache_map = NoCache
    /\ maxInFlight = 1
    /\ sub = GDriveSub
    /\ storage = storage_set(<<>>, GoogleDrive_STORAGE_KEY, 1)
    /\ remote = [seq |-> 0, minValid |-> 0, channels |-> {1}, nextChan |-> 2]
    /\ procs = [p \in Procs |-> DriveIdle]
    /\ ghost = [Ghost0 EXCEPT !.inited = TRUE, !.initCursor = 1]

InitGDriveConc ==
    /\ provider = "gdrive"
    /\ response_cache_map = NoCache
    /\ maxInFlight = 2
    /\ sub = GDriveSub
    /\ storage = storage_set(<<>>, GoogleDrive_STORAGE_KEY, 1)
    /\ remote = [seq |-> 0, minValid |-> 0, channels |-> {1}, nextChan |-> 2]
    /\ procs = [p \in Procs |-> DriveIdle]
    /\ ghost = [Ghost0 EXCEPT !.inited = TRUE, !.initCursor = 1]

InitGDriveLife ==
    /\ provider = "gdrive"
    /\ response_cache_map = NoCache
    /\ maxInFlight = 1
    /\ sub = NoSub
    /\ storage = <<>>
    /\ remote = [seq |-> 0, minValid |-> 0, channels |-> {}, nextChan |-> 0]
    /\ procs = [p \in Procs |-> DriveIdle]
    /\ ghost = Ghost0

(***************************************************************************)
(* Dropbox                                                                 *)
(***************************************************************************)
\* Cursor c stands at position c - 1 of the account's change log (0 is the
\* empty string the store wrapper returns for a missing key).
\* list_folder/continue returns at most DropboxPage entries per call.
DropboxPage == 1

Dropbox_MAX_PAGES == 10

DropboxBodies == {"", "json", "invalid"}

\* hmac.new(app_secret, body, sha256).hexdigest(): determined by the pair.
Dropbox_hmac(app_secret, body) == <<app_secret, body>>

\* <<>> is a request without the X-Dropbox-Signature header; the others are
\* signed with the app secret or another key, over the body sent or another.
DropboxSignatures(body) ==
    {<<>>, Dropbox_hmac("app", body), Dropbox_hmac("other", body), Dropbox_hmac("app", "tampered")}

\* request.args.get("challenge") of a GET: "" when the parameter is absent or
\* empty.
DropboxChallenges == {"", "xyz", "0"}

\* _ok_response, lines 108-110: the body of the plain acknowledgement.
Dropbox_ok_response == "{\"status\": \"ok\"}"

\* A handshake answered with the plain acknowledgement.
Dropbox_challenge_response_ok(challenge) == Dropbox_ok_response

\* lines 36-42: the body of the answer to a GET.
Dropbox_challenge_response(challenge) == IF challenge # "" THEN challenge ELSE Dropbox_ok_response

\* The requests that reach the endpoint: the challenge of a GET, other
\* methods, and POST notifications.
DropboxRequests ==
    {[method |-> "GET", challenge |-> c, sig |-> <<>>, body |-> ""] : c \in DropboxChallenges}
    \cup {[method |-> "PUT", challenge |-> "", sig |-> <<>>, body |-> ""]}
    \cup UNION {{[method |-> "POST", challenge |-> "", sig |-> g, body |-> b] : g \in DropboxSignatures(b)} :
                  b \in DropboxBodies}

\* A validation that only asks for the header to be present.
Dropbox_validate_signature_present(req, app_secret) == req.sig # <<>>

\* _validate_signature, lines 113-120.
Dropbox_validate_signature(req, app_secret) ==
    IF req.sig = <<>> THEN FALSE
    ELSE req.sig = Dropbox_hmac(app_secret, req.body)

Dropbox_token_hash(token) == <<"sha256", token>>

Dropbox_cursor_storage_key(access_token) == <<"dropbox:last-cursor", Dropbox_token_hash(access_token)>>

\* _get_latest_cursor, lines 123-147.
Dropbox_get_latest_cursor == remote.seq + 1

\* _list_folder_continue, lines 149-169: a page of entries, the new cursor and
\* has_more.
Dropbox_list_folder_continue(cursor) ==
    LET last == IF cursor + DropboxPage - 1 < remote.seq THEN cursor + DropboxPage - 1 ELSE remote.seq
    IN  [page |-> {r \in 1..MaxHist + 1 : cursor <= r /\ r <= last},
         cursor |-> last + 1,
         has_more |-> last < remote.seq]

\* The loop of lines 84-89: `left` turns remain, the call number failAt fails
\* (0: none does).
RECURSIVE Dropbox_fetch_pages(_, _, _, _, _)
Dropbox_fetch_pages(cursor, changes, left, calls, failAt) ==
    IF left = 0 THEN [ok |-> TRUE, cursor |-> cursor, changes |-> changes, calls |-> calls]
    ELSE IF calls + 1 = failAt THEN [ok |-> FALSE, cursor |-> cursor, changes |-> changes, calls |-> calls + 1]
    ELSE LET r == Dropbox_list_folder_continue(cursor) IN
         IF ~r.has_more
         THEN [ok |-> TRUE, cursor |-> r.cursor, changes |-> changes \cup r.page, calls |-> calls + 1]
         ELSE Dropbox_fetch_pages(r.cursor, changes \cup r.page, left - 1, calls + 1, failAt)

Dropbox_AccountChange ==
    /\ provider = "dropbox"
    /\ remote.seq < MaxHist
    /\ remote' = [remote EXCEPT !.seq = @ + 1]
    /\ UNCHANGED <<response_cache_map, provider, maxInFlight, sub, storage, procs, ghost>>

\* _dispatch_event, lines 33-105.
Dropbox_dispatch_event ==
    /\ provider = "dropbox"
    /\ sub.live
    /\ \E req \in DropboxRequests :
        LET method == req.method
            sig == req.sig
            body == req.body
            app_secret == sub.properties.app_secret
            access_token == sub.properties.access_token
            key == Dropbox_cursor_storage_key(access_token)
            cursor_before == Cursor(key)
            pr0 == [req |-> req, touched |-> 0, cursor0 |-> cursor_before, remote0 |-> remote,
                    authFail |-> /\ method = "POST"
                                 /\ app_secret # ""
                                 /\ sig # Dropbox_hmac(app_secret, body)]
            pr1 == [pr0 EXCEPT !.touched = 1]
            pr2 == [pr0 EXCEPT !.touched = 2]
            Answer(g, response) == [g EXCEPT !.last = @ @@ [req |-> req, response |-> response]]
        IN
        IF method = "GET"
        THEN /\ ghost' = Answer(Finish("EventDispatch", 200, <<>>, pr0, key, storage),
                              Dropbox_challenge_response(req.challenge))
             /\ UNCHANGED storage
        ELSE IF method # "POST"
        THEN /\ ghost' = Answer(Finish("EventDispatch", 200, <<>>, pr0, key, storage), Dropbox_ok_response)
             /\ UNCHANGED storage
        ELSE IF app_secret = ""
        THEN /\ ghost' = Answer(Finish("TriggerDispatchError", 0, <<>>, pr0, key, storage), "")
             /\ UNCHANGED storage
        ELSE IF ~Dropbox_validate_signature(req, app_secret)
        THEN /\ ghost' = Answer(Finish("TriggerValidationError", 0, <<>>, pr0, key, storage), "")
             /\ UNCHANGED storage
        ELSE IF body = "invalid"
        THEN /\ ghost' = Answer(Finish("TriggerDispatchError", 0, <<>>, pr0, key, storage), "")
             /\ UNCHANGED storage
        ELSE IF access_token = ""
        THEN /\ ghost' = Answer(Finish("EventDispatch", 200, <<"file_changes">>, pr0, key, storage),
                              Dropbox_ok_response)
             /\ UNCHANGED storage
        ELSE IF cursor_before = 0
        THEN \E latest \in BOOLEAN :
             IF latest
             THEN /\ storage' = storage_set(storage, key, Dropbox_get_latest_cursor)
                  /\ ghost' = Answer([Finish("EventDispatch", 200, <<>>, pr2, key, storage') EXCEPT
                                 !.inited = TRUE, !.initCursor = Dropbox_get_latest_cursor], Dropbox_ok_response)
             ELSE /\ ghost' = Answer(Finish("TriggerDispatchError", 0, <<>>, pr1, key, storage), "")
                  /\ UNCHANGED storage
        ELSE \E failAt \in 0..2 :
             LET f == Dropbox_fetch_pages(cursor_before, {}, Dropbox_MAX_PAGES, 0, failAt) IN
             IF ~f.ok
             THEN /\ ghost' = Answer([Finish("TriggerDispatchError", 0, <<>>, pr1, key, storage) EXCEPT
                                 !.fetchFailed = TRUE], "")
                  /\ UNCHANGED storage
             ELSE /\ storage' = storage_set(storage, key, f.cursor)
                  /\ ghost' = Answer([Finish("EventDispatch", 200, <<"file_changes">>, pr2, key, storage') EXCEPT
                                 !.emit = Bump(@, f.changes)], Dropbox_ok_response)
    /\ UNCHANGED <<response_cache_map, provider, maxInFlight, sub, remote, procs>>

InitDropbox ==
    /\ provider = "dropbox"
    /\ response_cache_map = NoCache
    /\ maxInFlight = 1
    /\ \E app_secret \in {"", "app"}, access_token \in {"", "token"} :
        sub = [live |-> TRUE, endpoint |-> Endpoint, parameters |-> [none |-> TRUE],
               properties |-> [app_secret |-> app_secret, access_token |-> access_token]]
    /\ storage = <<>>
    /\ remote = [seq |-> 0]
    /\ procs = [p \in Procs |-> [pc |-> "idle"]]
    /\ ghost = Ghost0

(***************************************************************************)
(* Slack                                                                   *)
(***************************************************************************)
Slack_MAX_SIGNATURE_AGE == 300

\* int(time.time()) when the request is handled.
SlackNow == 1000

\* X-Slack-Request-Timestamp: absent, not a number, or a number of seconds.
\* text is "" (absent), "abc" (int() raises ValueError) or "int" with its value.
SlackTimestamps ==
    {[text |-> "", value |-> 0], [text |-> "abc", value |-> 0]}
    \cup {[text |-> "int", value |-> v] :
            v \in {SlackNow - Slack_MAX_SIGNATURE_AGE - 1, SlackNow - Slack_MAX_SIGNATURE_AGE, SlackNow,
                   SlackNow + Slack_MAX_SIGNATURE_AGE, SlackNow + Slack_MAX_SIGNATURE_AGE + 1}}

\* Bodies: bytes that are not UTF-8, text that is not JSON, the URL
\* verification handshake with and without its challenge, an event callback
\* with a channel message, one without an event mapping, and another type.
SlackBodies == {"binary", "notjson", "url_verification", "url_verification_nochallenge",
                "message_channel", "event_callback_noevent", "app_rate_limited"}

\* _build_signature, lines 141-144: v0= and the HMAC of v0:timestamp:body.
Slack_build_signature(signing_secret, timestamp, body) == <<"v0", signing_secret, <<"v0", timestamp, body>>>>

\* <<>> is a request without the X-Slack-Signature header.
SlackSignatures(ts, body) ==
    {<<>>, Slack_build_signature("secret", ts, body), Slack_build_signature("other", ts, body),
     Slack_build_signature("secret", ts, "tampered")}

Abs(n) == IF n >= 0 THEN n ELSE 0 - n

\* lines 73-83: the header is present, a number, and within the window.
Slack_timestamp_ok(ts) ==
    /\ ts.text = "int"
    /\ ~(Abs(SlackNow - ts.value) > Slack_MAX_SIGNATURE_AGE)

\* The challenge value a url_verification payload carries.
SlackChallenge == "3eZbrw1aBm2rZgRNFdxV2595E9CY3gmdALWMmHkvFXO7tYXAYM8P"

\* A verifier without the replay window of lines 81-83.
Slack_parse_request_no_window(signing_secret, req) ==
    IF req.ts.text = "" THEN [kind |-> "TriggerValidationError", status |-> 0, response |-> ""]
    ELSE IF req.ts.text = "abc" THEN [kind |-> "TriggerValidationError", status |-> 0, response |-> ""]
    ELSE IF req.sig = <<>> THEN [kind |-> "TriggerValidationError", status |-> 0, response |-> ""]
    ELSE IF req.body = "binary" THEN [kind |-> "TriggerDispatchError", status |-> 0, response |-> ""]
    ELSE IF req.sig # Slack_build_signature(signing_secret, req.ts, req.body)
    THEN [kind |-> "TriggerValidationError", status |-> 0, response |-> ""]
    ELSE IF req.body = "notjson" THEN [kind |-> "TriggerDispatchError", status |-> 0, response |-> ""]
    ELSE IF req.body = "url_verification_nochallenge"
    THEN [kind |-> "TriggerDispatchError", status |-> 0, response |-> ""]
    ELSE [kind |-> "EventDispatch", status |-> 200,
          response |-> IF req.body = "url_verification" THEN SlackChallenge ELSE "{}"]

\* _parse_request, lines 70-113: the exception raised, or the response.
Slack_parse_request(signing_secret, req) ==
    IF req.ts.text = "" THEN [kind |-> "TriggerValidationError", status |-> 0, response |-> ""]
    ELSE IF req.ts.text = "abc" THEN [kind |-> "TriggerValidationError", status |-> 0, response |-> ""]
    ELSE IF Abs(SlackNow - req.ts.value) > Slack_MAX_SIGNATURE_AGE
    THEN [kind |-> "TriggerValidationError", status |-> 0, response |-> ""]
    ELSE IF req.sig = <<>> THEN [kind |-> "TriggerValidationError", status |-> 0, response |-> ""]
    ELSE IF req.body = "binary" THEN [kind |-> "TriggerDispatchError", status |-> 0, response |-> ""]
    ELSE IF req.sig # Slack_build_signature(signing_secret, req.ts, req.body)
    THEN [kind |-> "TriggerValidationError", status |-> 0, response |-> ""]
    ELSE IF req.body = "notjson" THEN [kind |-> "TriggerDispatchError", status |-> 0, response |-> ""]
    ELSE IF req.body = "url_verification_nochallenge"
    THEN [kind |-> "TriggerDispatchError", status |-> 0, response |-> ""]
    ELSE [kind |-> "EventDispatch", status |-> 200,
          response |-> IF req.body = "url_verification" THEN SlackChallenge ELSE "{}"]

\* _determine_event, lines 115-139, on the bodies above.
Slack_determine_event(body) ==
    IF body \notin {"message_channel", "event_callback_noevent"} THEN [kind |-> "EventDispatch", events |-> <<>>]
    ELSE IF body = "event_callback_noevent" THEN [kind |-> "TriggerDispatchError", events |-> <<>>]
    ELSE [kind |-> "EventDispatch", events |-> <<"message_channels">>]

NoKey == <<"none", 0>>

\* A dispatcher that takes no delivery for a retry.
Slack_is_retry_never(req) == FALSE

\* lines 55-59: the delivery carries X-Slack-Retry-Num.
Slack_is_retry(req) == req.retry

\* _dispatch_event, lines 50-68.  The record of the delivery keeps the request
\* and the body of the response.
Slack_dispatch_event ==
    /\ provider = "slack"
    /\ sub.live
    /\ \E retry \in BOOLEAN, ts \in SlackTimestamps, body \in SlackBodies :
       \E sig \in SlackSignatures(ts, body) :
        LET req == [retry |-> retry, ts |-> ts, sig |-> sig, body |-> body]
            signing_secret == sub.properties.signing_secret
            pr == [req |-> req, touched |-> 0, cursor0 |-> 0,
                   authFail |-> \/ ~Slack_timestamp_ok(ts)
                                \/ sig # Slack_build_signature(signing_secret, ts, body)]
            parsed == Slack_parse_request(signing_secret, req)
            event == Slack_determine_event(body)
            Return(kind, status, events, response) ==
                [Finish(kind, status, events, pr, NoKey, storage) EXCEPT
                    !.last = @ @@ [req |-> req, response |-> response]]
        IN
        IF signing_secret = ""
        THEN ghost' = Return("TriggerDispatchError", 0, <<>>, "")
        ELSE IF Slack_is_retry(req)
        THEN ghost' = Return("EventDispatch", 200, <<>>, "{}")
        ELSE IF parsed.kind # "EventDispatch"
        THEN ghost' = Return(parsed.kind, 0, <<>>, "")
        ELSE IF event.kind # "EventDispatch"
        THEN ghost' = Return(event.kind, 0, <<>>, "")
        ELSE ghost' = Return("EventDispatch", parsed.status, event.events, parsed.response)
    /\ UNCHANGED <<response_cache_map, provider, maxInFlight, sub, storage, remote, procs>>

InitSlack ==
    /\ provider = "slack"
    /\ response_cache_map = NoCache
    /\ maxInFlight = 1
    /\ \E signing_secret \in {"", "secret"} :
        sub = [live |-> TRUE, endpoint |-> Endpoint, parameters |-> [none |-> TRUE],
               properties |-> [signing_secret |-> signing_secret]]
    /\ storage = <<>>
    /\ remote = [seq |-> 0]
    /\ procs = [p \in Procs |-> [pc |-> "idle"]]
    /\ ghost = Ghost0

(***************************************************************************)
(* Telegram                                                                *)
(***************************************************************************)
\* X-Telegram-Bot-Api-Secret-Token: absent, the subscription's, another.
TelegramTokens == {"", "secret", "other"}

\* Bodies: not JSON, an empty object, a message update, an update of a kind
\* that is not in the map.
TelegramBodies == {"notjson", "empty", "message", "unknown"}

\* _resolve_event, lines 46-75.
Telegram_resolve_event(body) == IF body = "message" THEN "message_received" ELSE ""

\* _dispatch_event, lines 25-44.  The record of the delivery keeps the request.
Telegram_dispatch_event ==
    /\ provider = "telegram"
    /\ sub.live
    /\ \E header_token \in TelegramTokens, body \in TelegramBodies :
        LET req == [token |-> header_token, body |-> body]
            secret_token == sub.properties.secret_token
            pr == [req |-> req, touched |-> 0, cursor0 |-> 0,
                   authFail |-> secret_token # "" /\ header_token # secret_token]
            event == Telegram_resolve_event(body)
            Return(kind, status, events) ==
                [Finish(kind, status, events, pr, NoKey, storage) EXCEPT !.last = @ @@ [req |-> req]]
        IN
        IF secret_token # "" /\ header_token # secret_token
        THEN ghost' = Return("TriggerValidationError", 0, <<>>)
        ELSE IF body = "notjson"
        THEN ghost' = Return("TriggerDispatchError", 0, <<>>)
        ELSE IF body = "empty"
        THEN ghost' = Return("TriggerDispatchError", 0, <<>>)
        ELSE IF event = ""
        THEN ghost' = Return("EventDispatch", 200, <<>>)
        ELSE ghost' = Return("EventDispatch", 200, <<event>>)
    /\ UNCHANGED <<response_cache_map, provider, maxInFlight, sub, storage, remote, procs>>

InitTelegram ==
    /\ provider = "telegram"
    /\ response_cache_map = NoCache
    /\ maxInFlight = 1
    /\ \E secret_token \in {"", "secret"} :
        sub = [live |-> TRUE, endpoint |-> Endpoint, parameters |-> [none |-> TRUE],
               properties |-> [secret_token |-> secret_token]]
    /\ storage = <<>>
    /\ remote = [seq |-> 0]
    /\ procs = [p \in Procs |-> [pc |-> "idle"]]
    /\ ghost = Ghost0

(***************************************************************************)
(* GitHub                                                                  *)
(***************************************************************************)
\* remote.channels holds the ids of the webhooks the repository has.
GitHubRepositories == {"owner/repo", "norepo"}

\* _delete_subscription, lines 298-351.
GitHub_delete_subscription ==
    /\ provider = "github"
    /\ sub.live
    /\ UNCHANGED <<response_cache_map, provider, maxInFlight, storage, procs>>
    /\ \E answer \in {204, 500, 0} :
        LET external_id == sub.properties.external_id
            repository == sub.properties.repository
            http == IF answer = 0 THEN 0 ELSE StopStatus(external_id, answer)
        IN
        IF external_id = 0 \/ repository = ""
        THEN /\ UNCHANGED <<sub, remote>>
             /\ ghost' = [ghost EXCEPT !.last = Life("delete", "UnsubscribeError", FALSE, 0, external_id, 0)]
        ELSE IF repository # "owner/repo"
        THEN /\ UNCHANGED <<sub, remote>>
             /\ ghost' = [ghost EXCEPT !.last = Life("delete", "UnsubscribeError", FALSE, 0, external_id, 0)]
        ELSE /\ remote' = [remote EXCEPT !.channels = IF http = 204 THEN @ \ {external_id} ELSE @]
             /\ IF http = 204
                THEN /\ sub' = NoSub
                     /\ ghost' = [ghost EXCEPT
                                    !.last = Life("delete", "UnsubscribeResult", TRUE, http, external_id, 0)]
                ELSE /\ UNCHANGED sub
                     /\ ghost' = [ghost EXCEPT
                                    !.last = Life("delete", "UnsubscribeError", FALSE, http, external_id, 0)]

\* _refresh_subscription, lines 353-360: no call to GitHub; the Subscription
\* is rebuilt from the endpoint and the properties.
GitHub_refresh_subscription ==
    /\ provider = "github"
    /\ sub.live
    /\ UNCHANGED <<response_cache_map, provider, maxInFlight, storage, remote, procs>>
    /\ sub' = [live |-> TRUE, endpoint |-> sub.endpoint,
               parameters |-> Subscription_default_parameters,
               properties |-> sub.properties]
    /\ ghost' = [ghost EXCEPT !.last = Life("refresh", "Subscription", TRUE, 0,
                                            sub.properties.external_id, sub.properties.external_id)]

\* The webhook is removed on GitHub's side.
GitHub_HookRemoved ==
    /\ provider = "github"
    /\ \E c \in remote.channels : remote' = [remote EXCEPT !.channels = @ \ {c}]
    /\ UNCHANGED <<response_cache_map, provider, maxInFlight, sub, storage, procs, ghost>>

\* X-GitHub-Event: absent (""), the ping of a new webhook in two spellings,
\* event types of each branch of the resolution, and one GitHub does not have.
GitHubEventTypes == {"", "ping", "PING", "pull_request", "release", "push", "create", "unknown_type"}

\* payload["action"]: "" when the payload has none.
GitHubActions == {"", "published", "closed", "future_action"}

GitHubContentTypes == {"application/json", "application/x-www-form-urlencoded"}

\* The body (or the payload field of the form): empty, not JSON, the empty
\* object, an object with a sender and the action (and, for a pull request,
\* pull_request.merged).
GitHubBodies == {"", "notjson", "{}", "payload"}

\* "sha256=" + HMAC-SHA256(secret, raw body), lines 165-167.
GitHub_hmac(webhook_secret, req) ==
    <<"sha256", webhook_secret, req.content_type, req.body, req.action, req.merged>>

\* str.lower(), line 50, on the event types above and on the strings of the
\* payloads and filters below.
GitHub_lower(event_type) ==
    CASE event_type = "PING" -> "ping"
      [] event_type = "OPEN" -> "open"
      [] event_type = "APPROVED" -> "approved"
      [] event_type = "SUCCESS" -> "success"
      [] event_type = "Bug" -> "bug"
      [] OTHER -> event_type

\* f"{event_type}_{action}", line 68.
GitHub_event_action_known(event_type, action) ==
    IF action = "published" THEN "release_published" ELSE "release"

GitHub_event_action(event_type, action) ==
    IF action = "published" THEN "release_published"
    ELSE IF action = "closed" THEN "release_closed"
    ELSE "release_future_action"

\* _validate_signature, lines 160-169.
GitHub_validate_signature(req, webhook_secret) ==
    IF req.sig = <<>> THEN FALSE
    ELSE req.sig = GitHub_hmac(webhook_secret, req)

\* _validate_payload, lines 143-159: TRUE when a payload is returned.
GitHub_validate_payload(req) ==
    IF req.body = "" THEN FALSE
    ELSE IF req.body = "notjson" THEN FALSE
    ELSE IF req.body = "{}" THEN FALSE
    ELSE TRUE

\* _dispatch_trigger_events, lines 49-141.
GitHub_dispatch_trigger_events(event_type, action) ==
    LET t == GitHub_lower(event_type) IN
    IF t = "pull_request" THEN [kind |-> "EventDispatch", events |-> <<t>>]
    ELSE IF t = "release"
    THEN IF action = "" THEN [kind |-> "TriggerDispatchError", events |-> <<>>]
         ELSE [kind |-> "EventDispatch", events |-> <<GitHub_event_action(t, action)>>]
    ELSE IF t = "push" THEN [kind |-> "EventDispatch", events |-> <<"push">>]
    ELSE IF t = "create" THEN [kind |-> "EventDispatch", events |-> <<"ref_change">>]
    ELSE IF t = "ping" THEN [kind |-> "EventDispatch", events |-> <<t>>]
    ELSE [kind |-> "EventDispatch", events |-> <<>>]

\* _dispatch_event, lines 34-47.  The record of the delivery keeps the request.
GitHub_dispatch_event ==
    /\ provider = "github"
    /\ sub.live
    /\ \E event_type \in GitHubEventTypes, content_type \in GitHubContentTypes, body \in GitHubBodies,
          action \in GitHubActions, merged \in BOOLEAN, signed \in {"", "secret", "other"} :
        LET req0 == [event_type |-> event_type, content_type |-> content_type, body |-> body,
                     action |-> IF body = "payload" THEN action ELSE "",
                     merged |-> body = "payload" /\ event_type = "pull_request" /\ merged,
                     sig |-> <<>>]
            req == IF signed = "" THEN req0 ELSE [req0 EXCEPT !.sig = GitHub_hmac(signed, req0)]
            webhook_secret == sub.properties.webhook_secret
            pr == [req |-> req, touched |-> 0, cursor0 |-> 0,
                   authFail |-> webhook_secret # "" /\ req.sig # GitHub_hmac(webhook_secret, req)]
            resolved == GitHub_dispatch_trigger_events(event_type, req.action)
            Return(kind, status, events) ==
                [Finish(kind, status, events, pr, NoKey, storage) EXCEPT !.last = @ @@ [req |-> req]]
        IN
        IF webhook_secret # "" /\ ~GitHub_validate_signature(req, webhook_secret)
        THEN ghost' = Return("TriggerValidationError", 0, <<>>)
        ELSE IF event_type = ""
        THEN ghost' = Return("TriggerDispatchError", 0, <<>>)
        ELSE IF ~GitHub_validate_payload(req)
        THEN ghost' = Return("TriggerDispatchError", 0, <<>>)
        ELSE IF resolved.kind # "EventDispatch"
        THEN ghost' = Return(resolved.kind, 0, <<>>)
        ELSE ghost' = Return("EventDispatch", 200, resolved.events)
    /\ UNCHANGED <<response_cache_map, provider, maxInFlight, sub, storage, remote, procs>>

\* events/utils/pull_request.py, _normalize_list, lines 181-189.  raw is the
\* configured string cut at its commas (<<>> for None); the pieces are
\* stripped and the empty ones dropped.
GitHub_normalize_list(raw) ==
    LET strip(item) == IF item = " dev" THEN "dev"
                       ELSE IF item = " feature" THEN "feature"
                       ELSE IF item = " " THEN ""
                       ELSE item
    IN  {strip(raw[i]) : i \in DOMAIN raw} \ {""}

\* check_merged_state, lines 106-112: TRUE when EventIgnoreError is not raised.
\* value is "None", "True" or "False".
GitHub_check_merged_state_unfiltered(pull_request, value) == TRUE

GitHub_check_merged_state(pull_request, value) ==
    IF value = "None" THEN TRUE
    ELSE pull_request.merged = (value = "True")

\* apply_pull_request_common_filters, lines 26-35, with the checks of lines
\* 38-103 and 115-178: TRUE when none of them raises EventIgnoreError.
GitHub_apply_pull_request_common_filters_skipped(pull_request, parameters) == TRUE

GitHub_apply_pull_request_common_filters(pull_request, parameters) ==
    LET fnmatch(path, pattern) == pattern = path \/ (pattern = "docs/*" /\ path = "docs/x.md")
        check_base_branch ==
            LET branches == GitHub_normalize_list(parameters.base_branch)
            IN  branches = {} \/ pull_request.base \in branches
        check_head_branch ==
            LET branches == GitHub_normalize_list(parameters.head_branch)
            IN  branches = {} \/ pull_request.head \in branches
        check_author ==
            LET authors == GitHub_normalize_list(parameters.author)
            IN  authors = {} \/ pull_request.user \in authors
        check_draft_state ==
            parameters.draft = "None" \/ pull_request.draft = (parameters.draft = "True")
        check_labels ==
            LET labels == GitHub_normalize_list(parameters.label_names)
            IN  labels = {} \/ labels \cap pull_request.labels # {}
        check_reviewers ==
            LET reviewers == GitHub_normalize_list(parameters.reviewers)
            IN  reviewers = {} \/ reviewers \cap pull_request.requested # {}
        check_pr_size_threshold ==
            LET value == parameters.pr_size_threshold IN
            IF value = "" THEN TRUE
            ELSE IF value = "abc" THEN TRUE
            ELSE pull_request.additions + pull_request.deletions <= (IF value = "1" THEN 1 ELSE 0)
        check_changed_files_glob ==
            LET patterns == GitHub_normalize_list(parameters.changed_files_glob) IN
            IF patterns = {} THEN TRUE
            ELSE IF pull_request.files = {} THEN TRUE
            ELSE \E path \in pull_request.files : \E pattern \in patterns : fnmatch(path, pattern)
    IN  /\ check_base_branch
        /\ check_head_branch
        /\ check_author
        /\ check_draft_state
        /\ check_labels
        /\ check_reviewers
        /\ check_pr_size_threshold
        /\ check_changed_files_glob

\* events/pull_request/pull_request.py, PullRequestUnifiedEvent._on_event,
\* lines 21-39: "Variables", or the exception raised.
GitHub_pull_request_on_event(parameters, payload) ==
    IF payload.empty THEN "ValueError"
    ELSE IF parameters.actions # {} /\ payload.action \notin parameters.actions THEN "EventIgnoreError"
    ELSE IF ~payload.has_object THEN "ValueError"
    ELSE IF ~GitHub_apply_pull_request_common_filters(payload.pull_request, parameters)
    THEN "EventIgnoreError"
    ELSE IF payload.action = "closed" /\ ~GitHub_check_merged_state(payload.pull_request, parameters.merged)
    THEN "EventIgnoreError"
    ELSE "Variables"

\* events/issues/issues.py, IssuesUnifiedEvent._on_event, lines 18-40, with
\* the checks of events/utils/issues.py, lines 9-72 (its _normalize_list,
\* lines 75-84, is the one above, lowercased on request).
GitHub_issues_on_event(parameters, payload) ==
    LET issue == payload.issue
        contains(k, text) == k = text \/ (k = "bug" /\ text = "fix bug")
        lowered(raw) == {GitHub_lower(v) : v \in GitHub_normalize_list(raw)}
        check_labels ==
            LET labels == GitHub_normalize_list(parameters.labels)
            IN  labels = {} \/ labels \cap issue.labels # {}
        check_assignee ==
            LET assignees == GitHub_normalize_list(parameters.assignee)
            IN  assignees = {} \/ assignees \cap issue.assignees # {}
        check_authors ==
            LET authors == GitHub_normalize_list(parameters.authors)
            IN  authors = {} \/ issue.user \in authors
        check_milestone ==
            LET milestones == GitHub_normalize_list(parameters.milestone)
            IN  milestones = {} \/ issue.milestone \in milestones
        check_title_contains ==
            LET keywords == lowered(parameters.title_contains)
            IN  keywords = {} \/ \E k \in keywords : contains(k, GitHub_lower(issue.title))
        check_body_contains ==
            LET keywords == lowered(parameters.body_contains)
            IN  keywords = {} \/ \E k \in keywords : contains(k, GitHub_lower(issue.body))
        check_state ==
            LET targets == lowered(parameters.state)
            IN  targets = {} \/ GitHub_lower(issue.state) \in targets
    IN  IF payload.empty THEN "ValueError"
        ELSE IF parameters.actions # {} /\ payload.action \notin parameters.actions THEN "EventIgnoreError"
        ELSE IF ~payload.has_object THEN "ValueError"
        ELSE IF /\ check_labels
                /\ check_assignee
                /\ check_authors
                /\ check_milestone
                /\ check_title_contains
                /\ check_body_contains
                /\ check_state
        THEN "Variables"
        ELSE "EventIgnoreError"

\* events/pull_request_review/pull_request_review.py,
\* PullRequestReviewUnifiedEvent._on_event, lines 23-36, with the filters of
\* events/utils/pull_request_review.py, lines 27-106.
GitHub_pull_request_review_on_event(parameters, payload) ==
    LET review == payload.review
        contains(k, text) == k = text \/ (k = "bug" /\ text = "fix bug")
        lowered(raw) == {GitHub_lower(v) : v \in GitHub_normalize_list(raw)}
        check_review_state ==
            LET states == GitHub_normalize_list(parameters.review_state)
            IN  states = {} \/ GitHub_lower(review.state) \in states
        check_reviewer ==
            LET reviewers == GitHub_normalize_list(parameters.reviewer)
            IN  reviewers = {} \/ review.user \in reviewers
        check_pull_request_author ==
            LET authors == GitHub_normalize_list(parameters.author)
            IN  authors = {} \/ payload.pull_request.user \in authors
        check_pull_request_numbers ==
            LET numbers == GitHub_normalize_list(parameters.pull_request_numbers)
            IN  numbers = {} \/ payload.pull_request.number \in numbers
        check_review_body ==
            LET keywords == lowered(parameters.body_contains)
            IN  keywords = {} \/ \E k \in keywords : contains(k, GitHub_lower(review.body))
        check_dismissed_by ==
            LET users == GitHub_normalize_list(parameters.dismissed_by)
            IN  users = {} \/ payload.sender \in users
        check_dismissal_message ==
            LET keywords == lowered(parameters.dismissal_message_contains)
            IN  keywords = {} \/ \E k \in keywords : contains(k, GitHub_lower(payload.dismissal_message))
    IN  IF payload.empty THEN "ValueError"
        ELSE IF ~payload.has_object THEN "ValueError"
        ELSE IF parameters.actions # {} /\ payload.action \notin parameters.actions THEN "EventIgnoreError"
        ELSE IF ~(/\ check_review_state
                  /\ check_reviewer
                  /\ check_pull_request_author
                  /\ check_pull_request_numbers
                  /\ check_review_body)
        THEN "EventIgnoreError"
        ELSE IF payload.action = "dismissed" /\ ~(check_dismissed_by /\ check_dismissal_message)
        THEN "EventIgnoreError"
        ELSE "Variables"

\* events/workflow_run/workflow_run_completed.py,
\* WorkflowRunCompletedEvent._on_event, lines 16-72.
GitHub_workflow_run_completed_on_event(parameters, payload) ==
    LET run == payload.workflow_run
        check_name ==
            LET names == GitHub_normalize_list(parameters.workflow_name)
            IN  names = {} \/ run.name \in names
        check_branch ==
            LET branches == GitHub_normalize_list(parameters.branch)
            IN  branches = {} \/ run.head_branch \in branches
        check_conclusion ==
            LET allowed == {GitHub_lower(v) : v \in GitHub_normalize_list(parameters.conclusion)}
            IN  allowed = {} \/ GitHub_lower(run.conclusion) \in allowed
        check_actor ==
            LET users == GitHub_normalize_list(parameters.actor)
            IN  users = {} \/ payload.sender \in users
    IN  IF payload.empty THEN "ValueError"
        ELSE IF payload.action # "completed" THEN "EventIgnoreError"
        ELSE IF ~payload.has_object THEN "ValueError"
        ELSE IF check_name /\ check_branch /\ check_conclusion /\ check_actor THEN "Variables"
        ELSE "EventIgnoreError"

\* The inputs of the projectors: the event, its parameters (at most two
\* filters configured) and the payload of the request (empty, without its
\* object, or with it), held in remote until the host calls _on_event.
InitGitHubEvents ==
    /\ provider = "github_events"
    /\ response_cache_map = NoCache
    /\ maxInFlight = 1
    /\ sub = [live |-> TRUE, endpoint |-> Endpoint, parameters |-> [repository |-> "owner/repo"],
              properties |-> [external_id |-> 1, repository |-> "owner/repo", webhook_secret |-> "secret"]]
    /\ storage = <<>>
    /\ procs = [p \in Procs |-> [pc |-> "idle"]]
    /\ ghost = Ghost0
    /\ LET Set(parameters, f) == [parameters EXCEPT ![f[1]] = f[2]]
           Payloads(object, actions, objects) ==
               {[empty |-> TRUE, has_object |-> FALSE, action |-> "", sender |-> "",
                 dismissal_message |-> ""] @@ object}
               \cup {[empty |-> FALSE, has_object |-> FALSE, action |-> a, sender |-> "alice",
                      dismissal_message |-> ""] @@ object : a \in actions}
               \cup {[empty |-> FALSE, has_object |-> TRUE, action |-> a, sender |-> "alice",
                      dismissal_message |-> ""] @@ o : a \in actions, o \in objects}
           pr0 == [base |-> "main", head |-> "fix", user |-> "alice", draft |-> FALSE, labels |-> {},
                   requested |-> {}, additions |-> 2, deletions |-> 0, files |-> {}, merged |-> FALSE]
           issue0 == [labels |-> {}, assignees |-> {}, user |-> "alice", milestone |-> "",
                      title |-> "docs", body |-> "", state |-> "open"]
           review0 == [state |-> "approved", user |-> "alice", body |-> ""]
           run0 == [name |-> "ci", head_branch |-> "main", conclusion |-> "success"]
           Unset(event) ==
               CASE event = "pull_request" ->
                        [actions |-> {}, base_branch |-> <<>>, head_branch |-> <<>>, author |-> <<>>,
                         draft |-> "None", label_names |-> <<>>, reviewers |-> <<>>,
                         pr_size_threshold |-> "", changed_files_glob |-> <<>>, merged |-> "None"]
                 [] event = "issues" ->
                        [actions |-> {}, labels |-> <<>>, assignee |-> <<>>, authors |-> <<>>,
                         milestone |-> <<>>, title_contains |-> <<>>, body_contains |-> <<>>,
                         state |-> <<>>]
                 [] event = "pull_request_review" ->
                        [actions |-> {}, review_state |-> <<>>, reviewer |-> <<>>, author |-> <<>>,
                         pull_request_numbers |-> <<>>, body_contains |-> <<>>, dismissed_by |-> <<>>,
                         dismissal_message_contains |-> <<>>]
                 [] OTHER ->
                        [workflow_name |-> <<>>, branch |-> <<>>, conclusion |-> <<>>, actor |-> <<>>]
           Filters(event) ==
               CASE event = "pull_request" ->
                        {<<"actions", {"closed"}>>, <<"base_branch", <<"main", " dev">>>>,
                         <<"head_branch", <<"feat">>>>, <<"author", <<"Alice">>>>,
                         <<"author", <<"alice">>>>, <<"draft", "True">>,
                         <<"label_names", <<"bug", " feature">>>>, <<"reviewers", <<"bob">>>>,
                         <<"pr_size_threshold", "abc">>, <<"pr_size_threshold", "1">>,
                         <<"changed_files_glob", <<"docs/*">>>>,
                         <<"merged", "True">>, <<"merged", "False">>}
                 [] event = "issues" ->
                        {<<"actions", {"opened"}>>, <<"labels", <<"bug", " feature">>>>,
                         <<"labels", <<"feature">>>>, <<"assignee", <<"bob">>>>,
                         <<"authors", <<"Alice">>>>, <<"authors", <<"alice">>>>,
                         <<"milestone", <<"v1">>>>, <<"title_contains", <<"Bug">>>>,
                         <<"body_contains", <<"bug">>>>, <<"state", <<"OPEN">>>>,
                         <<"state", <<"closed", " ">>>>}
                 [] event = "pull_request_review" ->
                        {<<"actions", {"submitted"}>>, <<"review_state", <<"approved">>>>,
                         <<"review_state", <<"APPROVED">>>>, <<"review_state", <<"commented">>>>,
                         <<"reviewer", <<"Alice">>>>, <<"dismissed_by", <<"bob">>>>}
                 [] OTHER ->
                        {<<"workflow_name", <<"ci">>>>, <<"branch", <<"main">>>>, <<"branch", <<"MAIN">>>>,
                         <<"conclusion", <<"success">>>>, <<"conclusion", <<"SUCCESS">>>>,
                         <<"conclusion", <<"failure">>>>, <<"actor", <<"bob">>>>}
           Requests(event) ==
               CASE event = "pull_request" ->
                        Payloads([pull_request |-> pr0], {"opened", "closed"},
                                 {[pull_request |-> [pr0 EXCEPT !.base = base, !.labels = labels,
                                                                 !.files = files, !.merged = merged]] :
                                    base \in {"main", "MAIN"}, labels \in {{}, {"bug"}},
                                    files \in {{}, {"src/a.py"}, {"docs/x.md"}}, merged \in BOOLEAN})
                 [] event = "issues" ->
                        Payloads([issue |-> issue0], {"opened", "closed"},
                                 {[issue |-> [issue0 EXCEPT !.labels = labels, !.state = state,
                                                            !.title = title]] :
                                    labels \in {{}, {"bug"}}, state \in {"open", "closed"},
                                    title \in {"docs", "fix bug"}})
                 [] event = "pull_request_review" ->
                        Payloads([review |-> review0, pull_request |-> [user |-> "alice", number |-> "7"]],
                                 {"submitted", "dismissed"},
                                 {[review |-> [review0 EXCEPT !.state = state],
                                   pull_request |-> [user |-> "alice", number |-> "7"]] :
                                    state \in {"approved", "APPROVED", "commented"}})
                 [] OTHER ->
                        Payloads([workflow_run |-> run0], {"completed", "requested"},
                                 {[workflow_run |-> [run0 EXCEPT !.conclusion = conclusion]] :
                                    conclusion \in {"success", "failure"}})
       IN  \E event \in {"pull_request", "issues", "pull_request_review", "workflow_run_completed"} :
           \E f1 \in Filters(event), f2 \in Filters(event), payload \in Requests(event),
              unset \in BOOLEAN :
               remote = [event |-> event, payload |-> payload,
                         parameters |-> IF unset THEN Unset(event) ELSE Set(Set(Unset(event), f1), f2)]

\* The host hands the request of a delivery and the parameters of a subscribed
\* event to the event's _on_event.  The record of the call keeps its inputs
\* and its outcome: "Variables", or the exception raised.
GitHub_on_event ==
    /\ provider = "github_events"
    /\ ghost.last.op # "on_event"
    /\ LET event == remote.event
           result ==
               CASE event = "pull_request" -> GitHub_pull_request_on_event(remote.parameters, remote.payload)
                 [] event = "issues" -> GitHub_issues_on_event(remote.parameters, remote.payload)
                 [] event = "pull_request_review" ->
                        GitHub_pull_request_review_on_event(remote.parameters, remote.payload)
                 [] OTHER -> GitHub_workflow_run_completed_on_event(remote.parameters, remote.payload)
       IN  ghost' = [ghost EXCEPT !.last = [op |-> "on_event", event |-> event,
                                            parameters |-> remote.parameters,
                                            payload |-> remote.payload, result |-> result]]
    /\ UNCHANGED <<response_cache_map, provider, maxInFlight, sub, storage, remote, procs>>

\* A subscription with and without the webhook secret _create_subscription
\* generates.
InitGitHub ==
    /\ provider = "github"
    /\ response_cache_map = NoCache
    /\ maxInFlight = 1
    /\ \E webhook_secret \in {"", "secret"} :
        sub = [live |-> TRUE, endpoint |-> Endpoint, parameters |-> [repository |-> "owner/repo"],
               properties |-> [external_id |-> 1, repository |-> "owner/repo",
                               webhook_secret |-> webhook_secret]]
    /\ storage = <<>>
    /\ remote = [seq |-> 0, minValid |-> 0, channels |-> {1}, nextChan |-> 1]
    /\ procs = [p \in Procs |-> [pc |-> "idle"]]
    /\ ghost = Ghost0

\* The subscription as _create_subscription returns it for webhook 1.
InitGitHubLife ==
    /\ provider = "github"
    /\ response_cache_map = NoCache
    /\ maxInFlight = 1
    /\ \E repository \in GitHubRepositories :
        sub = [live |-> TRUE, endpoint |-> Endpoint, parameters |-> [repository |-> repository],
               properties |-> [external_id |-> 1, repository |-> repository]]
    /\ storage = <<>>
    /\ remote = [seq |-> 0, minValid |-> 0, channels |-> {1}, nextChan |-> 1]
    /\ procs = [p \in Procs |-> [pc |-> "idle"]]
    /\ ghost = Ghost0

\* _create_subscription, lines 374-482: credentials, profile, Pub/Sub topic and
\* push subscription (_ensure_pubsub), users.watch.  remote.channels holds the
\* push subscriptions of the project.
Gmail_create_subscription ==
    /\ provider = "gmail"
    /\ ~sub.live
    /\ InFlight = 0
    /\ remote.nextChan < MaxChannels
    /\ UNCHANGED <<response_cache_map, provider, maxInFlight, storage, procs>>
    /\ \E gcp \in BOOLEAN, at \in BOOLEAN, profile \in BOOLEAN, pubsub \in BOOLEAN, watch \in BOOLEAN,
          oidc \in BOOLEAN :
        LET c == remote.nextChan + 1 IN
        IF ~gcp \/ ~at \/ ~profile \/ ~pubsub
        THEN /\ UNCHANGED <<sub, remote>>
             /\ ghost' = [ghost EXCEPT !.last = Life("create", "SubscriptionError", FALSE, 0, 0, 0)]
        ELSE /\ remote' = [remote EXCEPT !.channels = @ \cup {c}, !.nextChan = c, !.topic = TRUE,
                                          !.watch = @ \/ watch]
             /\ IF ~watch
                THEN /\ UNCHANGED sub
                     /\ ghost' = [ghost EXCEPT !.last = Life("create", "SubscriptionError", FALSE, 0, 0, 0)]
                ELSE /\ sub' = [live |-> TRUE, endpoint |-> Endpoint,
                                parameters |-> [require_oidc |-> oidc],
                                properties |-> [require_oidc |-> oidc, subscription_key |-> c,
                                                push_subscription_name |-> c, topic_id |-> "topic",
                                                topic_name |-> "projects/p/topics/topic"]]
                     /\ ghost' = [ghost EXCEPT !.last = Life("create", "Subscription", TRUE, 0, 0, c)]

\* What the Pub/Sub and Gmail calls of a delete can answer.
PubSubAnswers == {"ok", "notfound", "error"}

\* _delete_managed_resources, lines 621-639: NotFound is suppressed, any other
\* failure is raised.
Gmail_delete_managed_resources(answer) ==
    [raised |-> answer = "error", primary |-> IF answer = "ok" THEN "deleted"
                                              ELSE IF answer = "notfound" THEN "gone" ELSE "failed"]

\* _best_effort_cleanup, lines 641-688: with no subscription left on the topic
\* the watch is stopped and the topic deleted.  `list` is the answer to
\* list_topic_subscriptions, `left` the subscriptions it finds.
Gmail_best_effort_cleanup(topic_id, list, left, access_token, stop, del) ==
    IF topic_id = "" THEN [raised |-> FALSE, stopped |-> FALSE, deleted |-> FALSE]
    ELSE IF list # "ok" THEN [raised |-> TRUE, stopped |-> FALSE, deleted |-> FALSE]
    ELSE IF left # {} THEN [raised |-> FALSE, stopped |-> FALSE, deleted |-> FALSE]
    ELSE [raised |-> del = "error", stopped |-> access_token /\ stop, deleted |-> del = "ok"]

\* A delete that lets a failure of the cleanup phase decide the result.
Gmail_delete_result_cleanup_fatal(primary, cleanup) ==
    IF primary.raised \/ cleanup.raised THEN [kind |-> "UnsubscribeResult", success |-> FALSE]
    ELSE [kind |-> "UnsubscribeResult", success |-> TRUE]

\* _delete_subscription, lines 599-619: the two try blocks.
Gmail_delete_result(primary, cleanup) ==
    IF primary.raised THEN [kind |-> "UnsubscribeResult", success |-> FALSE]
    ELSE [kind |-> "UnsubscribeResult", success |-> TRUE]

\* _delete_subscription, lines 584-619.
Gmail_delete_subscription ==
    /\ provider = "gmail"
    /\ sub.live
    /\ InFlight = 0
    /\ UNCHANGED <<response_cache_map, provider, maxInFlight, storage, procs>>
    /\ \E gcp \in BOOLEAN, answer \in PubSubAnswers, list \in {"ok", "error"}, at \in BOOLEAN,
          stop \in BOOLEAN, del \in PubSubAnswers :
        LET push_name == sub.properties.push_subscription_name
            present == push_name \in remote.channels
            primary == Gmail_delete_managed_resources(IF answer = "ok" /\ ~present THEN "notfound" ELSE answer)
            left == IF primary.raised THEN remote.channels ELSE remote.channels \ {push_name}
            cleanup == Gmail_best_effort_cleanup(sub.properties.topic_id, list, left, at, stop,
                                                 IF del = "ok" /\ ~remote.topic THEN "notfound" ELSE del)
            result == Gmail_delete_result(primary, cleanup)
        IN
        IF ~gcp \/ push_name = 0
        THEN /\ UNCHANGED <<sub, remote>>
             /\ ghost' = [ghost EXCEPT !.last = Life("delete", "UnsubscribeResult", FALSE, 0, push_name, 0)
                                                @@ [primary |-> "none", cleanupRaised |-> FALSE]]
        ELSE IF primary.raised
        THEN /\ UNCHANGED <<sub, remote>>
             /\ ghost' = [ghost EXCEPT !.last = Life("delete", result.kind, result.success, 0, push_name, 0)
                                                @@ [primary |-> primary.primary, cleanupRaised |-> FALSE]]
        ELSE /\ remote' = [remote EXCEPT !.channels = left,
                                         !.watch = @ /\ ~cleanup.stopped,
                                         !.topic = @ /\ ~cleanup.deleted]
             /\ sub' = IF result.success THEN NoSub ELSE sub
             /\ ghost' = [ghost EXCEPT !.last = Life("delete", result.kind, result.success, 0, push_name, 0)
                                                @@ [primary |-> primary.primary,
                                                    cleanupRaised |-> cleanup.raised]]

\* _refresh_subscription, lines 690-727: users.watch is issued again for the
\* topic of the subscription.
Gmail_refresh_subscription ==
    /\ provider = "gmail"
    /\ sub.live
    /\ InFlight = 0
    /\ UNCHANGED <<response_cache_map, provider, maxInFlight, storage, procs>>
    /\ \E at \in BOOLEAN, watch \in BOOLEAN :
        LET c == sub.properties.push_subscription_name IN
        IF ~at \/ sub.properties.topic_name = "" \/ ~watch
        THEN /\ UNCHANGED <<sub, remote>>
             /\ ghost' = [ghost EXCEPT !.last = Life("refresh", "SubscriptionError", FALSE, 0, c, c)]
        ELSE /\ remote' = [remote EXCEPT !.watch = TRUE]
             /\ sub' = [live |-> TRUE, endpoint |-> sub.endpoint,
                        parameters |-> Subscription_default_parameters,
                        properties |-> sub.properties]
             /\ ghost' = [ghost EXCEPT !.last = Life("refresh", "Subscription", TRUE, 200, c, c)]

InitGmailLife ==
    /\ provider = "gmail"
    /\ response_cache_map = NoCache
    /\ maxInFlight = 1
    /\ sub = NoSub
    /\ storage = <<>>
    /\ remote = [history |-> <<>>, seq |-> 0, minValid |-> 0, channels |-> {}, nextChan |-> 0,
                 topic |-> FALSE, watch |-> FALSE]
    /\ procs = [p \in Procs |-> GmailIdle]
    /\ ghost = Ghost0

InitGmail ==
    /\ provider = "gmail"
    /\ response_cache_map = NoCache
    /\ maxInFlight = 1
    /\ \E oidc \in BOOLEAN :
        sub = [live |-> TRUE, endpoint |-> Endpoint, parameters |-> [require_oidc |-> oidc],
               properties |-> [require_oidc |-> oidc, subscription_key |-> "k1"]]
    /\ storage = <<>>
    /\ remote = [history |-> <<>>, seq |-> 0, minValid |-> 0]
    /\ procs = [p \in Procs |-> GmailIdle]
    /\ ghost = Ghost0

InitGmailConc ==
    /\ provider = "gmail"
    /\ response_cache_map = NoCache
    /\ maxInFlight = 2
    /\ sub = [live |-> TRUE, endpoint |-> Endpoint, parameters |-> [require_oidc |-> FALSE],
              properties |-> [require_oidc |-> FALSE, subscription_key |-> "k1"]]
    /\ storage = <<>>
    /\ remote = [history |-> <<>>, seq |-> 0, minValid |-> 0]
    /\ procs = [p \in Procs |-> GmailIdle]
    /\ ghost = Ghost0

(***************************************************************************)
(* Lark: lark_trigger/provider/lark.py                                     *)
(***************************************************************************)
\* The deliveries: two event types with a registered callback, the URL
\* verification handshake and a request the SDK handler rejects.
LarkRequests == {"im.message.receive_v1", "im.chat.disbanded_v1", "url_verification", "invalid"}

LarkIdle == [pc |-> "idle", req |-> "invalid", thread |-> 1, own |-> <<>>, status |-> 0, raised |-> FALSE]

\* The name the callback registered for an event type appends (lines 265-279);
\* "" when the handler calls no callback.
Lark_callback(req) ==
    IF req = "im.message.receive_v1" THEN "message_receive_v1"
    ELSE IF req = "im.chat.disbanded_v1" THEN "chat_disbanded_v1"
    ELSE ""

\* _dispatch_event, lines 79-246: the keys of the subscription, the handler,
\* then response_cache_map[threading.get_ident()] = [].
Lark_dispatch_begin(p) ==
    /\ provider = "lark"
    /\ CanStart(p)
    /\ UNCHANGED <<provider, maxInFlight, sub, storage, remote>>
    /\ \E req \in LarkRequests, t \in LarkThreads :
        IF ~sub.properties.lark_encrypt_key \/ ~sub.properties.lark_verification_token
        THEN /\ UNCHANGED <<procs, response_cache_map>>
             /\ ghost' = [ghost EXCEPT !.last = [op |-> "dispatch", kind |-> "TriggerDispatchError",
                                                 status |-> 0, events |-> <<>>, own |-> <<>>,
                                                 thread |-> t]]
        ELSE /\ response_cache_map' = [response_cache_map EXCEPT ![t] = [present |-> TRUE, names |-> <<>>]]
             /\ procs' = [procs EXCEPT ![p] = [LarkIdle EXCEPT !.pc = "do", !.req = req, !.thread = t]]
             /\ UNCHANGED ghost

\* self.handler.do(raw_request), line 252: the handler calls the callback of
\* the event type, which appends its name to the list of the running thread
\* (lines 265-271).  With no list under the thread id the callback raises
\* KeyError, which the handler either answers as a failure or lets through.
Lark_handler_do(p) ==
    /\ provider = "lark"
    /\ procs[p].pc = "do"
    /\ UNCHANGED <<provider, maxInFlight, sub, storage, remote, ghost>>
    /\ LET t == procs[p].thread
           name == Lark_callback(procs[p].req)
       IN
       IF name = ""
       THEN /\ UNCHANGED response_cache_map
            /\ procs' = [procs EXCEPT ![p].pc = "pop",
                                      ![p].status = IF procs[p].req = "invalid" THEN 500 ELSE 200]
       ELSE IF response_cache_map[t].present
       THEN /\ response_cache_map' = [response_cache_map EXCEPT ![t].names = Append(@, name)]
            /\ procs' = [procs EXCEPT ![p].pc = "pop", ![p].status = 200, ![p].own = Append(@, name)]
       ELSE /\ UNCHANGED response_cache_map
            /\ \E caught \in BOOLEAN :
                 procs' = [procs EXCEPT ![p].pc = "pop", ![p].status = 500, ![p].raised = ~caught]

\* lines 253-263: the finally block pops the list of the running thread and
\* the dispatch returns it as the events.
Lark_dispatch_return(p) ==
    /\ provider = "lark"
    /\ procs[p].pc = "pop"
    /\ UNCHANGED <<provider, maxInFlight, sub, storage, remote>>
    /\ LET t == procs[p].thread
           entry == response_cache_map[t]
           kind == IF ~entry.present \/ procs[p].raised THEN "KeyError" ELSE "EventDispatch"
       IN
       /\ response_cache_map' = [response_cache_map EXCEPT ![t] = [present |-> FALSE, names |-> <<>>]]
       /\ ghost' = [ghost EXCEPT !.last = [op |-> "dispatch", kind |-> kind,
                                           status |-> IF kind = "EventDispatch" THEN procs[p].status ELSE 0,
                                           events |-> IF kind = "EventDispatch" THEN entry.names ELSE <<>>,
                                           own |-> procs[p].own, thread |-> t]]
    /\ procs' = [procs EXCEPT ![p] = LarkIdle]

InitLark ==
    /\ provider = "lark"
    /\ response_cache_map = NoCache
    /\ maxInFlight = 2
    /\ \E keyed \in BOOLEAN :
        sub = [live |-> TRUE, endpoint |-> Endpoint, parameters |-> [none |-> TRUE],
               properties |-> [lark_encrypt_key |-> keyed, lark_verification_token |-> keyed]]
    /\ storage = <<>>
    /\ remote = [seq |-> 0, minValid |-> 0, channels |-> {}, nextChan |-> 0]
    /\ procs = [p \in Procs |-> LarkIdle]
    /\ ghost = Ghost0

(***************************************************************************)
(* Trigger registry (spec section 4.5), as tests/test_trigger_factory.py    *)
(* drives it: providers register under their identity, events register      *)
(* with the provider or later, handlers are resolved by (provider, event).  *)
(***************************************************************************)
TriggerIdentities == {"test_provider", "non_existent"}

TriggerEvents == {"test_event", "non_existent"}

NoError == [kind |-> "", names |-> {}]

\* The registration of a provider: its class and the events known so far;
\* incremental are the events registered after the provider.
NoRegistration == [registered |-> FALSE, provider_cls |-> 0, events |-> {}, incremental |-> {}]

\* register_trigger_provider: fails for an identity that is registered, with
\* "Trigger provider `<identity>` is already registered"; nothing is overwritten.
TriggerFactory_register_trigger_provider_overwrite(registry, identity, provider_cls, events) ==
    [error |-> IF registry[identity].registered
               THEN [kind |-> "ValueError", names |-> {identity}] ELSE NoError,
     registry |-> [registry EXCEPT ![identity] =
                      [registered |-> TRUE, provider_cls |-> provider_cls, events |-> events,
                       incremental |-> {}]]]

TriggerFactory_register_trigger_provider(registry, identity, provider_cls, events) ==
    IF registry[identity].registered
    THEN [error |-> [kind |-> "ValueError", names |-> {identity}], registry |-> registry]
    ELSE [error |-> NoError,
          registry |-> [registry EXCEPT ![identity] =
                           [registered |-> TRUE, provider_cls |-> provider_cls, events |-> events,
                            incremental |-> {}]]]

\* registration.register_trigger(name, ...): an event registered after its
\* provider.
TriggerFactory_register_trigger(registry, identity, name) ==
    [registry EXCEPT ![identity].events = @ \cup {name},
                     ![identity].incremental = @ \cup {name}]

\* get_trigger_event_handler: the handler of a registered event of a
\* registered provider; "Trigger provider `<identity>` not found" or
\* "Event `<event>` not found in provider `<identity>`" otherwise.
TriggerFactory_get_trigger_event_handler_initial(registry, identity, event) ==
    IF ~registry[identity].registered
    THEN [ok |-> FALSE, error |-> [kind |-> "ValueError", names |-> {identity}]]
    ELSE IF event \notin registry[identity].events \ registry[identity].incremental
    THEN [ok |-> FALSE, error |-> [kind |-> "ValueError", names |-> {identity, event}]]
    ELSE [ok |-> TRUE, error |-> NoError]

TriggerFactory_get_trigger_event_handler(registry, identity, event) ==
    IF ~registry[identity].registered
    THEN [ok |-> FALSE, error |-> [kind |-> "ValueError", names |-> {identity}]]
    ELSE IF event \notin registry[identity].events
    THEN [ok |-> FALSE, error |-> [kind |-> "ValueError", names |-> {identity, event}]]
    ELSE [ok |-> TRUE, error |-> NoError]

\* TriggerFactory(): nothing is registered.  The registry is held in remote.
InitTriggerFactory ==
    /\ provider = "trigger_factory"
    /\ response_cache_map = NoCache
    /\ maxInFlight = 1
    /\ sub = NoSub
    /\ storage = <<>>
    /\ remote = [identity \in TriggerIdentities |-> NoRegistration]
    /\ procs = [p \in Procs |-> [pc |-> "idle"]]
    /\ ghost = Ghost0

\* One call of the host or of a plugin on the factory; the record of the call
\* keeps its arguments, the registry before it and its outcome.
TriggerFactory_call ==
    /\ provider = "trigger_factory"
    /\ \E op \in {"register_trigger_provider", "register_trigger", "get_trigger_event_handler"},
          identity \in TriggerIdentities, provider_cls \in {1, 2}, events \in SUBSET TriggerEvents,
          event \in TriggerEvents :
        LET call == [op |-> op, identity |-> identity, event |-> event, before |-> remote,
                     provider_cls |-> IF op = "register_trigger_provider" THEN provider_cls ELSE 0,
                     events |-> IF op = "register_trigger_provider" THEN events ELSE {}]
        IN
        CASE op = "register_trigger_provider" ->
                 LET r == TriggerFactory_register_trigger_provider(remote, identity, provider_cls, events)
                 IN  /\ remote' = r.registry
                     /\ ghost' = [ghost EXCEPT !.last = call @@ [ok |-> r.error = NoError, error |-> r.error]]
          [] op = "register_trigger" ->
                 /\ remote[identity].registered
                 /\ event \notin remote[identity].events
                 /\ remote' = TriggerFactory_register_trigger(remote, identity, event)
                 /\ ghost' = [ghost EXCEPT !.last = call @@ [ok |-> TRUE, error |-> NoError]]
          [] OTHER ->
                 LET r == TriggerFactory_get_trigger_event_handler(remote, identity, event)
                 IN  /\ remote' = remote
                     /\ ghost' = [ghost EXCEPT !.last = call @@ r]
    /\ UNCHANGED <<response_cache_map, provider, maxInFlight, sub, storage, procs>>

(***************************************************************************)
(* The specifications                                                      *)
(***************************************************************************)
\* Deliveries handled one after another, one provider per behaviour.
Init ==
    \/ InitGmail
    \/ InitGCal
    \/ InitGDrive
    \/ InitDropbox
    \/ InitSlack
    \/ InitTelegram
    \/ InitGitHub
    \/ InitGitHubEvents
    \/ InitTriggerFactory

Next ==
    \/ Gmail_MailboxChange
    \/ \E p \in Procs : Gmail_dispatch_begin(p)
    \/ \E p \in Procs : Gmail_dispatch_exist(p)
    \/ \E p \in Procs : Gmail_dispatch_init(p)
    \/ \E p \in Procs : Gmail_dispatch_get(p)
    \/ \E p \in Procs : Gmail_dispatch_fetch(p)
    \/ \E p \in Procs : Gmail_dispatch_advance(p)
    \/ GCal_CalendarChange
    \/ GCal_TokensExpire
    \/ \E p \in Procs : GCal_dispatch_begin(p)
    \/ \E p \in Procs : GCal_dispatch_exist(p)
    \/ \E p \in Procs : GCal_dispatch_get(p)
    \/ \E p \in Procs : GCal_dispatch_init(p)
    \/ \E p \in Procs : GCal_dispatch_fetch(p)
    \/ \E p \in Procs : GCal_dispatch_expired(p)
    \/ \E p \in Procs : GCal_dispatch_advance(p)
    \/ GoogleDrive_DriveChange
    \/ \E p \in Procs : GoogleDrive_dispatch_begin(p)
    \/ \E p \in Procs : GoogleDrive_fetch_read(p)
    \/ \E p \in Procs : GoogleDrive_fetch_list(p)
    \/ \E p \in Procs : GoogleDrive_fetch_check(p)
    \/ \E p \in Procs : GoogleDrive_fetch_store(p)
    \/ \E p \in Procs : GoogleDrive_dispatch_return(p)
    \/ Dropbox_AccountChange
    \/ Dropbox_dispatch_event
    \/ Slack_dispatch_event
    \/ Telegram_dispatch_event
    \/ GitHub_dispatch_event
    \/ GitHub_on_event
    \/ TriggerFactory_call

Spec == Init /\ [][Next]_vars

\* Two deliveries of one subscription in flight at once.
InitConc ==
    \/ InitGmailConc
    \/ InitGCalConc
    \/ InitGDriveConc
    \/ InitLark

NextConc ==
    \/ Gmail_MailboxChange
    \/ \E p \in Procs : Gmail_dispatch_begin(p)
    \/ \E p \in Procs : Gmail_dispatch_exist(p)
    \/ \E p \in Procs : Gmail_dispatch_init(p)
    \/ \E p \in Procs : Gmail_dispatch_get(p)
    \/ \E p \in Procs : Gmail_dispatch_fetch(p)
    \/ \E p \in Procs : Gmail_dispatch_advance(p)
    \/ GCal_CalendarChange
    \/ \E p \in Procs : GCal_dispatch_begin(p)
    \/ \E p \in Procs : GCal_dispatch_exist(p)
    \/ \E p \in Procs : GCal_dispatch_get(p)
    \/ \E p \in Procs : GCal_dispatch_init(p)
    \/ \E p \in Procs : GCal_dispatch_fetch(p)
    \/ \E p \in Procs : GCal_dispatch_advance(p)
    \/ GoogleDrive_DriveChange
    \/ \E p \in Procs : GoogleDrive_dispatch_begin(p)
    \/ \E p \in Procs : GoogleDrive_fetch_read(p)
    \/ \E p \in Procs : GoogleDrive_fetch_list(p)
    \/ \E p \in Procs : GoogleDrive_fetch_check(p)
    \/ \E p \in Procs : GoogleDrive_fetch_store(p)
    \/ \E p \in Procs : GoogleDrive_dispatch_return(p)
    \/ \E p \in Procs : Lark_dispatch_begin(p)
    \/ \E p \in Procs : Lark_handler_do(p)
    \/ \E p \in Procs : Lark_dispatch_return(p)

SpecConc == InitConc /\ [][NextConc]_vars

\* The subscription constructors.
InitLife ==
    \/ InitGmailLife
    \/ InitGCalLife
    \/ InitGDriveLife
    \/ InitGitHubLife

NextLife ==
    \/ Gmail_create_subscription
    \/ Gmail_delete_subscription
    \/ Gmail_refresh_subscription
    \/ GitHub_refresh_subscription
    \/ GCal_CalendarChange
    \/ GCal_ChannelExpires
    \/ GCal_create_subscription
    \/ GCal_refresh_subscription
    \/ GCal_delete_subscription
    \/ GoogleDrive_DriveChange
    \/ GoogleDrive_ChannelExpires
    \/ GoogleDrive_create_subscription
    \/ GoogleDrive_refresh_subscription
    \/ GoogleDrive_delete_subscription
    \/ GitHub_HookRemoved
    \/ GitHub_delete_subscription

SpecLife == InitLife /\ [][NextLife]_vars

(***************************************************************************)
(* The claims                                                              *)
(***************************************************************************)
Last == ghost.last

Dispatched == Last.op = "dispatch"

\* C1: in the Gmail dispatcher, over deliveries processed one after another
\* (re-deliveries included), every history record is in the payload of at most
\* one dispatch.
C1_EachRecordEmittedOnce ==
    provider = "gmail" => \A r \in DOMAIN ghost.emit : ghost.emit[r] <= 1

\* C2: for Google Calendar and Dropbox, processing the same authenticated
\* delivery again with nothing changed on the provider's side leaves the
\* stored cursor where the first processing left it and reports no event.
C2_ReplayIsSilent ==
    (provider \in {"gcal", "dropbox"} /\ Dispatched /\ Last.replay)
        => (Last.cursor = Last.cursor0 /\ Last.events = <<>>)

\* C3: a Slack delivery with a missing or wrong signature, or a timestamp
\* outside the window, is rejected with an error and never answered with
\* success, whatever other headers it carries.
C3_UnsignedRejected ==
    (provider = "slack" /\ Dispatched /\ Last.authFail) => Last.kind # "EventDispatch"

\* C4: in the Gmail, Google Calendar and Dropbox dispatchers a delivery that
\* fails verification is rejected with a validation error before any read or
\* write of the store, and the stored cursor is what it was.
C4_RejectedBeforeStore ==
    (provider \in {"gmail", "gcal", "dropbox"} /\ Dispatched /\ Last.authFail)
        => (Last.kind = "TriggerValidationError" /\ Last.touched = 0 /\ Last.cursor = Last.cursor0)

C4_Witness ==
    /\ provider = "dropbox"
    /\ Dispatched
    /\ Last.authFail
    /\ Last.kind = "TriggerValidationError"
    /\ Last.cursor0 > 0
    /\ Last.cursor = Last.cursor0

\* C5: when the subscription stores a shared secret (Drive or Calendar channel
\* id and token, Telegram secret token), a delivery whose secret header is
\* absent or different is rejected as an authentication failure.
C5_SecretRequired ==
    (provider \in {"gdrive", "gcal", "telegram"} /\ Dispatched /\ Last.authFail)
        => Last.kind = "TriggerValidationError"

\* The key of the cursor of the subscription, and the changes that a cursor
\* at position c has gone past, counted from the initial cursor.
CursorKey ==
    CASE provider = "gmail" -> Gmail_checkpoint_key(sub.properties)
      [] provider = "gcal" -> GCal_sync_storage_key(sub.properties)
      [] provider = "gdrive" -> GoogleDrive_STORAGE_KEY
      [] OTHER -> NoKey

Passed ==
    IF provider = "gdrive"
    THEN {r \in 1..MaxHist + 1 : ghost.initCursor <= r /\ r < Cursor(CursorKey)}
    ELSE Between(ghost.initCursor, Cursor(CursorKey))

Issued ==
    CASE provider = "gmail" -> 1..remote.seq
      [] provider = "gdrive" -> 1..remote.seq + 1
      [] OTHER -> 0..remote.seq

\* C6: with two deliveries of one subscription in flight at once, once both
\* have returned the stored cursor is one the provider issued and every change
\* after the initial cursor that the cursor has gone past was reported by a
\* dispatch (Calendar, Gmail, Drive).
C6_NoChangeSkipped ==
    (InFlight = 0 /\ ghost.inited)
        => (Cursor(CursorKey) \in Issued /\ \A r \in Passed : ghost.emit[r] >= 1)

C8_DeleteOfGoneSucceeds ==
    (provider \in {"github", "gcal", "gdrive"} /\ Last.op = "delete" /\ Last.http = 404)
        => (Last.kind = "UnsubscribeResult" /\ Last.success)

\* C9: a create_subscription that does not return a Subscription raises and
\* leaves the store exactly as it was (Drive, Calendar, Gmail).
C9_CreateAllOrNothing ==
    (provider \in {"gdrive", "gcal", "gmail"} /\ Last.op = "create" /\ Last.kind # "Subscription")
        => (Last.kind = "SubscriptionError" /\ ~Last.storeChanged)

\* C10: when refresh_subscription returns for Calendar or Drive, the old
\* channel is no longer registered with the provider and the Subscription
\* carries the new channel's id and token.
C10_RefreshReplacesChannel ==
    (provider \in {"gcal", "gdrive"} /\ Last.op = "refresh" /\ Last.kind = "Subscription")
        => /\ Last.oldChannel \notin remote.channels
           /\ Last.newChannel # Last.oldChannel
           /\ sub.properties.channel_id = Last.newChannel
           /\ sub.properties.channel_token = Last.newChannel

\* C11: create_subscription records the initial cursor (Gmail history id,
\* Calendar sync token), so the deliveries after creation report every change
\* made since creation that the stored cursor has gone past; none is consumed
\* only to initialise the cursor.  (Stated for runs in which no fetch failed
\* and the provider invalidated no token.)
C11_ChangesSinceCreationReported ==
    (/\ provider \in {"gmail", "gcal"}
     /\ InFlight = 0
     /\ storage_exist(CursorKey)
     /\ ~ghost.fetchFailed
     /\ remote.minValid = 0)
        => \A r \in Between(0, Cursor(CursorKey)) : ghost.emit[r] >= 1

\* C12: in Gmail delete_subscription, once the push subscription is deleted
\* or found already gone, the result is success=true whatever the cleanup
\* phase does, and nothing is raised.
C12_CleanupNeverFails ==
    (provider = "gmail" /\ Last.op = "delete" /\ Last.primary \in {"deleted", "gone"})
        => (Last.kind = "UnsubscribeResult" /\ Last.success)

C12_Witness ==
    /\ provider = "gmail"
    /\ Last.op = "delete"
    /\ Last.primary = "deleted"
    /\ Last.cleanupRaised
    /\ Last.success

\* C13: the dispatcher reads subscription.properties only, never
\* subscription.parameters: for the same delivery against the same calendar
\* and store, a subscription that differs only in its parameters is answered
\* with the same events.
C13_ParametersIgnored ==
    \A p \in Procs :
        (provider = "gcal" /\ procs[p].pc = "advance")
            => \A include_cancelled \in BOOLEAN :
                   GCal_events(procs[p].items, include_cancelled)
                       = GCal_events(procs[p].items, sub.parameters.include_cancelled)

\* C14: refresh_subscription never changes the endpoint or the parameters of
\* the subscription: each refresh, for every provider, returns them as they
\* were.
C14_RefreshKeepsEndpointAndParameters ==
    [][(ghost'.last.op = "refresh" /\ ghost'.last.success /\ sub' # sub)
            => (sub'.endpoint = sub.endpoint /\ sub'.parameters = sub.parameters)]_vars

\* C15: under every interleaving of concurrent Lark deliveries, a thread id
\* shared by two dispatches included, a delivery returns an EventDispatch
\* whose events are exactly the names its own callbacks appended.
C15_OwnEventsOnly ==
    (provider = "lark" /\ Last.op = "dispatch" /\ Last.kind # "TriggerDispatchError")
        => (Last.kind = "EventDispatch" /\ Last.events = Last.own)

\* C16: the Slack verifier accepts a request only if its timestamp is within
\* 300 seconds of now and its signature is the HMAC of "v0:timestamp:body"
\* under the signing secret; a timestamp 301 seconds old is rejected whatever
\* the signature and the body are, the timestamp check coming first; and a
\* delivery the verifier rejects is answered with the verifier's error.
C16_WindowThenSignature ==
    (provider = "slack" /\ Dispatched /\ sub.properties.signing_secret # "")
        => LET req == Last.req
               secret == sub.properties.signing_secret
               verdict == Slack_parse_request(secret, req)
               inWindow == req.ts.text = "int" /\ Abs(SlackNow - req.ts.value) <= 300
           IN  /\ verdict.kind = "EventDispatch"
                    => (inWindow /\ req.sig = Slack_build_signature(secret, req.ts, req.body))
               /\ (req.ts.text = "int" /\ ~inWindow) => verdict.kind = "TriggerValidationError"
               /\ (~req.retry /\ verdict.kind # "EventDispatch") => Last.kind = verdict.kind

\* A request 301 seconds old with the correct HMAC was rejected.
C16_Witness ==
    /\ provider = "slack"
    /\ Dispatched
    /\ sub.properties.signing_secret = "secret"
    /\ ~Last.req.retry
    /\ Last.req.ts = [text |-> "int", value |-> SlackNow - 301]
    /\ Last.req.sig = Slack_build_signature("secret", Last.req.ts, Last.req.body)
    /\ Last.kind = "TriggerValidationError"

\* C17 as stated: every Slack delivery carrying X-Slack-Retry-Num yields
\* events=[] and a 200 response without any access to persisted state.
C17_RetryAlwaysAcknowledged ==
    (provider = "slack" /\ Dispatched /\ Last.req.retry)
        => (/\ Last.kind = "EventDispatch"
            /\ Last.status = 200
            /\ Last.events = <<>>
            /\ Last.touched = 0)

\* C17 (amended): for a subscription that holds a signing secret, a delivery
\* carrying X-Slack-Retry-Num yields events=[] and a 200 response, whatever
\* its body, timestamp and signature are, with no access to persisted state.
C17_RetryAcknowledged ==
    (provider = "slack" /\ Dispatched /\ Last.req.retry /\ sub.properties.signing_secret # "")
        => (/\ Last.kind = "EventDispatch"
            /\ Last.status = 200
            /\ Last.events = <<>>
            /\ Last.touched = 0
            /\ storage = <<>>)

\* A correctly signed retry of a channel message was acknowledged without an event.
C17_Witness ==
    /\ provider = "slack"
    /\ Dispatched
    /\ Last.req.retry
    /\ Last.req.body = "message_channel"
    /\ ~Last.authFail
    /\ Last.kind = "EventDispatch"
    /\ Last.events = <<>>

\* The Dropbox half of C18: a GET carrying a non-empty challenge c yields
\* events=[] and a 200 response whose body is exactly c, and the cursor is
\* neither read nor written.
C18_DropboxChallengeEchoed ==
    (provider = "dropbox" /\ Dispatched /\ Last.req.method = "GET" /\ Last.req.challenge # "")
        => (/\ Last.kind = "EventDispatch"
            /\ Last.status = 200
            /\ Last.events = <<>>
            /\ Last.response = Last.req.challenge
            /\ Last.touched = 0
            /\ Last.cursor = Last.cursor0)

C19_GitHubPingSilent ==
    (/\ provider = "github"
     /\ Dispatched
     /\ GitHub_lower(Last.req.event_type) = "ping"
     /\ ~Last.authFail
     /\ GitHub_validate_payload(Last.req))
        => (Last.kind = "EventDispatch" /\ Last.status = 200 /\ Last.events = <<>>)

\* The Google part of C19: a Calendar or Drive notification with
\* X-Goog-Resource-State: sync that is answered carries events=[] and a 200
\* response, and no such delivery gets past the delta fetch.
C19_GoogleSyncSilent ==
    /\ (provider \in {"gcal", "gdrive"} /\ Dispatched /\ Last.handshake /\ Last.kind = "EventDispatch")
        => (Last.status = 200 /\ Last.events = <<>>)
    /\ \A p \in Procs :
        (provider = "gcal" /\ procs[p].req.state = "sync") => procs[p].pc \notin {"advance", "expired"}
    /\ \A p \in Procs :
        (provider = "gdrive" /\ procs[p].req.state = "sync") => procs[p].pc = "idle"

\* C19: a handshake delivery (GitHub ping, Calendar or Drive "sync") returns
\* an EventDispatch with events=[] and a success response, and performs no
\* delta fetch.
C19_HandshakeSilent == C19_GitHubPingSilent /\ C19_GoogleSyncSilent

\* C20 for one provider each: an authenticated delivery whose body is empty or
\* cannot be parsed is rejected with TriggerDispatchError (and not with the
\* TriggerValidationError of a failed authentication), emits no event and
\* leaves the cursor as it was.
C20_GitHubBadBodyRejected ==
    (provider = "github" /\ Dispatched /\ ~Last.authFail /\ Last.req.body \in {"", "notjson", "{}"})
        => (Last.kind = "TriggerDispatchError" /\ Last.events = <<>>)

C20_TelegramBadBodyRejected ==
    (provider = "telegram" /\ Dispatched /\ ~Last.authFail /\ Last.req.body \in {"notjson", "empty"})
        => (Last.kind = "TriggerDispatchError" /\ Last.events = <<>>)

C20_DropboxBadBodyRejected ==
    (/\ provider = "dropbox"
     /\ Dispatched
     /\ Last.req.method = "POST"
     /\ ~Last.authFail
     /\ Last.req.body \in {"", "invalid"})
        => (/\ Last.kind = "TriggerDispatchError"
            /\ Last.events = <<>>
            /\ Last.cursor = Last.cursor0)

\* C20: GitHub, Telegram and Dropbox reject every authenticated delivery with
\* an empty or unparsable body; none is processed as a valid, empty payload.
C20_BadBodyRejected ==
    C20_GitHubBadBodyRejected /\ C20_TelegramBadBodyRejected /\ C20_DropboxBadBodyRejected

\* C21: every dispatch terminates: for a finite change list and every outcome
\* of the store, the paging loop of a delivery finishes after finitely many
\* provider calls.  A Drive change list of at most MaxHist changes is read in
\* at most MaxHist calls of changes.list by a loop that makes progress.
C21_PagingTerminates ==
    \A p \in Procs : provider = "gdrive" => procs[p].calls <= MaxHist

\* C22: a pull_request delivery with action "closed" resolves to the one
\* event "pull_request" whether the pull request was merged or not; the
\* projector configured with merged = true returns Variables only for a merged
\* pull request and raises EventIgnoreError for one that was not merged; for
\* every other action the merged filter has no effect on the outcome.
C22_MergedFilterOnlyWhenClosed ==
    /\ (/\ provider = "github"
        /\ Dispatched
        /\ GitHub_lower(Last.req.event_type) = "pull_request"
        /\ Last.req.action = "closed"
        /\ ~Last.authFail
        /\ GitHub_validate_payload(Last.req))
       => (Last.kind = "EventDispatch" /\ Last.events = <<"pull_request">>)
    /\ (/\ Last.op = "on_event"
        /\ Last.event = "pull_request"
        /\ Last.payload.has_object)
       => /\ (Last.payload.action = "closed" /\ Last.parameters.merged = "True")
             => /\ Last.result = "Variables" => Last.payload.pull_request.merged
                /\ ~Last.payload.pull_request.merged => Last.result = "EventIgnoreError"
          /\ Last.payload.action # "closed"
             => Last.result = GitHub_pull_request_on_event([Last.parameters EXCEPT !.merged = "None"],
                                                           Last.payload)

C22_Witness ==
    /\ Last.op = "on_event"
    /\ Last.event = "pull_request"
    /\ Last.payload.action = "closed"
    /\ Last.parameters.merged = "True"
    /\ ~Last.payload.pull_request.merged
    /\ Last.parameters.actions = {"closed"}
    /\ Last.result = "EventIgnoreError"

\* The outcome of the issues and pull_request projectors is decided by the
\* filters: Variables when every configured filter matches the payload,
\* EventIgnoreError otherwise.  An unset or empty filter matches; a
\* comma-separated filter matches when one of its values matches one of the
\* observed values.  skips: a glob filter matches a payload without file paths.
C23_FiltersDecide(skips) ==
    LET par == Last.parameters
        AnyOf(raw, observed) ==
            GitHub_normalize_list(raw) = {} \/ GitHub_normalize_list(raw) \cap observed # {}
        AnyLower(raw, observed) ==
            GitHub_normalize_list(raw) = {}
            \/ \E v \in GitHub_normalize_list(raw) : GitHub_lower(v) = GitHub_lower(observed)
        Contains(raw, text) ==
            GitHub_normalize_list(raw) = {}
            \/ \E v \in GitHub_normalize_list(raw) :
                  GitHub_lower(v) = text \/ (GitHub_lower(v) = "bug" /\ text = "fix bug")
        Glob(raw, files) ==
            GitHub_normalize_list(raw) = {}
            \/ (skips /\ files = {})
            \/ \E v \in GitHub_normalize_list(raw) : v \in files \/ (v = "docs/*" /\ "docs/x.md" \in files)
        PullRequestMatches ==
            LET pr == Last.payload.pull_request IN
            /\ par.actions = {} \/ Last.payload.action \in par.actions
            /\ AnyOf(par.base_branch, {pr.base})
            /\ AnyOf(par.head_branch, {pr.head})
            /\ AnyOf(par.author, {pr.user})
            /\ par.draft = "None" \/ pr.draft = (par.draft = "True")
            /\ AnyOf(par.label_names, pr.labels)
            /\ AnyOf(par.reviewers, pr.requested)
            /\ par.pr_size_threshold \in {"", "abc"} \/ pr.additions + pr.deletions <= 1
            /\ Glob(par.changed_files_glob, pr.files)
            /\ \/ Last.payload.action # "closed"
               \/ par.merged = "None"
               \/ pr.merged = (par.merged = "True")
        IssueMatches ==
            LET issue == Last.payload.issue IN
            /\ par.actions = {} \/ Last.payload.action \in par.actions
            /\ AnyOf(par.labels, issue.labels)
            /\ AnyOf(par.assignee, issue.assignees)
            /\ AnyOf(par.authors, {issue.user})
            /\ AnyOf(par.milestone, {issue.milestone})
            /\ Contains(par.title_contains, issue.title)
            /\ Contains(par.body_contains, issue.body)
            /\ AnyLower(par.state, issue.state)
    IN  (Last.op = "on_event" /\ Last.payload.has_object)
        => /\ Last.event = "pull_request"
              => Last.result = (IF PullRequestMatches THEN "Variables" ELSE "EventIgnoreError")
           /\ Last.event = "issues"
              => Last.result = (IF IssueMatches THEN "Variables" ELSE "EventIgnoreError")

\* C23 as stated: an issues or pull_request projector returns Variables
\* exactly when every configured filter matches the payload, and raises
\* EventIgnoreError otherwise.
C23_VariablesIffAllFiltersMatch == C23_FiltersDecide(FALSE)

\* C23 as amended: an issues or pull_request projector returns Variables
\* exactly when every configured filter that can be evaluated on the payload
\* matches it; the glob of changed files is skipped for a payload without
\* file paths and the size threshold when it is not a number.
C23_VariablesIffEvaluableFiltersMatch == C23_FiltersDecide(TRUE)

C23_Witness ==
    /\ Last.op = "on_event"
    /\ Last.event = "pull_request"
    /\ Last.payload.has_object
    /\ Last.parameters.label_names = <<"bug", " feature">>
    /\ Last.parameters.changed_files_glob = <<"docs/*">>
    /\ Last.payload.pull_request.labels = {}
    /\ Last.payload.pull_request.files = {"docs/x.md"}
    /\ Last.result = "EventIgnoreError"

\* C24: the enumeration filters (issue state, review state, workflow
\* conclusion) match case-insensitively: the outcome of the projector is the
\* one it has with the configured values and the observed value in lower
\* case.  The identifier filters (author login, branch) match
\* case-sensitively: a login or branch that differs from every configured
\* value in case only does not pass.
C24_EnumerationsFoldCaseIdentifiersDoNot ==
    LET par == Last.parameters
        pay == Last.payload
        Lowered(raw) == [i \in DOMAIN raw |-> GitHub_lower(raw[i])]
        Differs(raw, observed) ==
            /\ observed \notin GitHub_normalize_list(raw)
            /\ \E v \in GitHub_normalize_list(raw) : GitHub_lower(v) = GitHub_lower(observed)
    IN  (Last.op = "on_event" /\ pay.has_object)
        => /\ Last.event = "issues"
              => /\ Last.result = GitHub_issues_on_event(
                                      [par EXCEPT !.state = Lowered(@)],
                                      [pay EXCEPT !.issue.state = GitHub_lower(@)])
                 /\ (Differs(par.authors, pay.issue.user) => Last.result # "Variables")
           /\ Last.event = "pull_request_review"
              => Last.result = GitHub_pull_request_review_on_event(
                                   [par EXCEPT !.review_state = Lowered(@)],
                                   [pay EXCEPT !.review.state = GitHub_lower(@)])
           /\ Last.event = "workflow_run_completed"
              => /\ Last.result = GitHub_workflow_run_completed_on_event(
                                      [par EXCEPT !.conclusion = Lowered(@)],
                                      [pay EXCEPT !.workflow_run.conclusion = GitHub_lower(@)])
                 /\ (Differs(par.branch, pay.workflow_run.head_branch) => Last.result # "Variables")
           /\ Last.event = "pull_request"
              => ((Differs(par.base_branch, pay.pull_request.base)
                   \/ Differs(par.author, pay.pull_request.user)) => Last.result # "Variables")

\* C25 as stated: the resolution of the event names is a total function of
\* the event type and the action: for an authentic delivery with a valid
\* payload it never raises; a release resolves to the one name made of the
\* type and the action, whatever the action; a type that is not recognised
\* resolves to no event.
C25_ResolutionTotal ==
    (/\ provider = "github"
     /\ Dispatched
     /\ ~Last.authFail
     /\ Last.req.event_type # ""
     /\ GitHub_validate_payload(Last.req))
    => /\ Last.kind = "EventDispatch"
       /\ GitHub_lower(Last.req.event_type) = "release" => Len(Last.events) = 1
       /\ Last.req.event_type = "unknown_type" => Last.events = <<>>

\* C25 as amended: the resolution is a function of the event type and the
\* action that raises TriggerDispatchError for a release without an action
\* and for nothing else; a release with an action, known or not, resolves to
\* the one name made of the type and the action; a type that is not
\* recognised resolves to no event.
C25_ResolutionRaisesOnlyWithoutAction ==
    (/\ provider = "github"
     /\ Dispatched
     /\ ~Last.authFail
     /\ Last.req.event_type # ""
     /\ GitHub_validate_payload(Last.req))
    => IF GitHub_lower(Last.req.event_type) = "release"
       THEN CASE Last.req.action = "" -> Last.kind = "TriggerDispatchError"
              [] Last.req.action = "published" ->
                     Last.kind = "EventDispatch" /\ Last.events = <<"release_published">>
              [] Last.req.action = "closed" ->
                     Last.kind = "EventDispatch" /\ Last.events = <<"release_closed">>
              [] OTHER -> Last.kind = "EventDispatch" /\ Last.events = <<"release_future_action">>
       ELSE /\ Last.kind = "EventDispatch"
            /\ Last.req.event_type = "unknown_type" => Last.events = <<>>
            /\ GitHub_lower(Last.req.event_type) = "pull_request" => Last.events = <<"pull_request">>

C25_Witness ==
    /\ provider = "github"
    /\ Dispatched
    /\ ~Last.authFail
    /\ Last.req.event_type = "release"
    /\ Last.req.action = "future_action"
    /\ Last.events = <<"release_future_action">>

\* C26: registering a provider identity that is already registered fails
\* with an error that names the provider, and leaves the existing
\* registration (the whole registry) as it was.
C26_DuplicateRegistrationFails ==
    (/\ provider = "trigger_factory"
     /\ Last.op = "register_trigger_provider"
     /\ Last.before[Last.identity].registered)
    => /\ ~Last.ok
       /\ Last.error.kind = "ValueError"
       /\ Last.identity \in Last.error.names
       /\ remote = Last.before

C26_Witness ==
    /\ provider = "trigger_factory"
    /\ Last.op = "register_trigger_provider"
    /\ Last.before[Last.identity].registered
    /\ Last.before[Last.identity].provider_cls # Last.provider_cls
    /\ Last.before[Last.identity].events # Last.events
    /\ ~Last.ok

\* C27: resolving a handler by (provider, event) succeeds exactly when the
\* provider is registered and the event has been registered for it by then,
\* with the provider or later; otherwise it fails with an error that names
\* what is unknown.
C27_ResolvesIffRegistered ==
    (provider = "trigger_factory" /\ Last.op = "get_trigger_event_handler")
    => /\ Last.ok = (/\ Last.before[Last.identity].registered
                     /\ Last.event \in Last.before[Last.identity].events)
       /\ ~Last.ok => /\ Last.error.kind = "ValueError"
                      /\ Last.identity \in Last.error.names
                      /\ Last.before[Last.identity].registered => Last.event \in Last.error.names

C27_Witness ==
    /\ provider = "trigger_factory"
    /\ Last.op = "get_trigger_event_handler"
    /\ Last.event \in Last.before[Last.identity].incremental
    /\ Last.ok

\* C28: a failed delta fetch never advances the stored cursor past changes
\* that were not emitted: over deliveries processed one after another, some
\* of which failed to fetch, every change after the initial cursor that the
\* stored cursor has gone past was reported by a dispatch (Gmail, Drive,
\* Calendar).
C28_FailedFetchKeepsCursor ==
    (/\ provider \in {"gmail", "gdrive", "gcal"}
     /\ InFlight = 0
     /\ ghost.inited
     /\ ghost.fetchFailed)
        => \A r \in Passed : ghost.emit[r] >= 1

\* C29: the Gmail checkpoint never moves backwards, whatever the order in
\* which the notifications arrive: no step replaces a stored history id by a
\* smaller one.
C29_CheckpointMonotonic ==
    [][provider = "gmail"
       => LET key == Gmail_checkpoint_key(sub.properties)
          IN  (key \in DOMAIN storage /\ key \in DOMAIN storage') => storage'[key] >= storage[key]]_vars

\* The key under which the dispatcher keeps the cursor of another
\* subscription of the same provider: a Calendar subscription with a
\* subscription key of its own, a Dropbox subscription with the access token
\* "token2", a second Drive subscription (the Drive key is the same for every
\* subscription).
C30_OtherCursorKey ==
    CASE provider = "gcal" -> GCal_sync_storage_key([subscription_key |-> MaxChannels + 2])
      [] provider = "dropbox" -> Dropbox_cursor_storage_key("token2")
      [] OTHER -> GoogleDrive_STORAGE_KEY

\* C30: the cursor is kept per subscription: no operation on one subscription
\* changes the stored cursor of another subscription (Drive, Dropbox,
\* Calendar).  Every step of the model is an operation on the subscription sub.
C30_OtherCursorUntouched ==
    [][(provider \in {"gdrive", "dropbox", "gcal"})
       => (/\ (C30_OtherCursorKey \in DOMAIN storage') = (C30_OtherCursorKey \in DOMAIN storage)
           /\ (C30_OtherCursorKey \in DOMAIN storage /\ C30_OtherCursorKey \in DOMAIN storage')
              => storage'[C30_OtherCursorKey] = storage[C30_OtherCursorKey])]_vars

====
